---- MODULE Spec2Model ----
(***************************************************************************)
(* Realtime voice-agent gateway: the per-connection orchestrator           *)
(* (VoiceConversationHandler), the ElevenLabs TTS adapter, the OpenAI LLM  *)
(* adapter and the SessionManager registry.                                *)
(*                                                                         *)
(* Text is modelled as a sequence of one-character strings so that trim,   *)
(* concatenation and "last character" are computed as the code computes    *)
(* them.  One step of the model is one run-to-completion task of the       *)
(* Node.js event loop: a handler runs from the event that wakes it up to   *)
(* the next await on real I/O (a client frame, an STT transcript, an LLM   *)
(* fragment, a TTS message).                                               *)
(***************************************************************************)
EXTENDS Integers, Sequences, FiniteSets, TLC

VARIABLES
    maxHistoryMessages, \* config.session.maxHistoryMessages
    timeoutMs,          \* config.session.timeoutMs, in units of half a reaper interval
    sessions,           \* SessionManager.sessions (Map sessionId -> session)
    handler,            \* the connection's VoiceConversationHandler, or NoHandler
    procs,              \* the processUserMessage invocations of the connection
    nprocs,             \* how many processUserMessage invocations were started
    llm,                \* OpenAILLM adapter fields
    tts,                \* ElevenLabsTTS adapter fields
    ttsUpstream,        \* the synthesizer's side of the TTS socket
    ttsSent,            \* frames the latest step wrote to the TTS socket
    stt,                \* the STT adapter as seen by the handler
    wsOut,              \* frames the latest step wrote to the client socket
    audioIn,            \* number of binary client frames handled so far
    generation,         \* history: number of cancellations so far (output epoch)
    ttsCancelPending,   \* history: tts.cancel() was called after the last synthesize()
    added,              \* history: per session, addMessage calls since creation
    calls,              \* number of direct adapter/registry calls (driver specs)
    now,                \* Date.now(), in units of half a reaper interval
    tickDue,            \* the cleanup timer is due at the current instant
    initPc,             \* position of the connection's initialize() call
    cleanupPc,          \* position of the handler's cleanup() call
    reapPc,             \* position of the reaper's destroySession() call
    orphaned,           \* open provider sockets of handlers replaced by a later init
    inits,              \* number of init frames handled on the connection
    groq,               \* the GroqSTT adapter and its transcription requests
    peer                \* another connection: its socket and its step count

vars == <<maxHistoryMessages, timeoutMs, sessions, handler, procs, nprocs, llm, tts,
          ttsUpstream, ttsSent, stt, wsOut, audioIn, generation, ttsCancelPending,
          added, calls, now, tickDue, initPc, cleanupPc, reapPc, orphaned, inits,
          groq, peer>>

\* the clock and the positions of the lifecycle procedures
lifeVars == <<now, tickDue, initPc, cleanupPc, reapPc, orphaned, inits>>

-----------------------------------------------------------------------------
(* Bounds of the model *)

MaxTranscripts == 2
MaxAudioFrames == 3
MaxConfiguredHistory == 3
MaxCalls == 5
MaxChunks == 3
MaxSweeps == 1
MaxPairInputs == 4
MaxPeerSteps == 3

-----------------------------------------------------------------------------
(* Text *)

Whitespace == {" ", "\n"}

\* mutant of the delimiters: a full stop does not end a sentence
sentenceDelimiters_NoFullStop == {"!", "?", "\n"}

sentenceDelimiters == {".", "!", "?", "\n"}

RECURSIVE TrimStart(_)
TrimStart(s) ==
    IF s = <<>> THEN <<>>
    ELSE IF Head(s) \in Whitespace THEN TrimStart(Tail(s)) ELSE s

RECURSIVE TrimEnd(_)
TrimEnd(s) ==
    IF s = <<>> THEN <<>>
    ELSE IF s[Len(s)] \in Whitespace THEN TrimEnd(SubSeq(s, 1, Len(s) - 1)) ELSE s

\* String.prototype.trim
Trim(s) == TrimEnd(TrimStart(s))

RECURSIVE Concat(_)
\* the concatenation of a sequence of texts
Concat(ss) == IF ss = <<>> THEN <<>> ELSE Head(ss) \o Concat(Tail(ss))

\* Array.prototype.slice(start) with one argument
Slice(a, start) ==
    LET n == Len(a)
        from == IF start < 0
                THEN (IF n + start < 0 THEN 0 ELSE n + start)
                ELSE (IF start > n THEN n ELSE start)
    IN SubSeq(a, from + 1, n)

-----------------------------------------------------------------------------
(* SessionManager (the session registry) *)

SessionIds == {"s1", "s2"}

Roles == {"user", "assistant"}

\* createSession: the session record stored in the Map.  ttsConnected is not
\* a key of the created state object; an absent key reads as false.
\* providers says whether setProviders has stored the three adapters.
NewSession ==
    [ lastActivityAt |-> now,
      conversationHistory |-> <<>>,
      state |-> [ isActive |-> FALSE, sttConnected |-> FALSE,
                  ttsConnected |-> FALSE,
                  llmStreaming |-> FALSE, ttsStreaming |-> FALSE ],
      metadata |-> [ clientName |-> "" ],
      providers |-> FALSE ]

\* getSession: a lookup that finds the session stamps its lastActivityAt
getSession(ss, sessionId) ==
    IF sessionId \notin DOMAIN ss THEN ss
    ELSE [ ss EXCEPT ![sessionId].lastActivityAt = now ]

createSession(ss, sessionId) ==
    [ id \in (DOMAIN ss) \cup {sessionId} |->
        IF id = sessionId THEN NewSession ELSE ss[id] ]

\* mutant of the truncation: the limit is off by one
TruncateHistory_OffByOne(h, maxMessages) ==
    IF Len(h) > maxMessages + 1 THEN Slice(h, 0 - maxMessages) ELSE h

\* mutant of the truncation: the newest entries are dropped, not the oldest
TruncateHistory_DropsNewest(h, maxMessages) ==
    IF Len(h) > maxMessages THEN SubSeq(h, 1, maxMessages) ELSE h

\* the truncation of addMessage: keep the last maxMessages entries
TruncateHistory(h, maxMessages) ==
    IF Len(h) > maxMessages THEN Slice(h, 0 - maxMessages) ELSE h

addMessage(ss, sessionId, role, content) ==
    IF sessionId \notin DOMAIN ss THEN ss
    ELSE [ getSession(ss, sessionId) EXCEPT ![sessionId].conversationHistory =
             TruncateHistory(Append(@, [role |-> role, content |-> content]),
                             maxHistoryMessages) ]

getFormattedHistory(ss, sessionId) ==
    IF sessionId \notin DOMAIN ss THEN <<>>
    ELSE ss[sessionId].conversationHistory

\* mutant of updateState: the update is applied to every session
updateState_EverySession(ss, sessionId, stateUpdate) ==
    [ id \in DOMAIN ss |->
        [ ss[id] EXCEPT !.state =
            [ k \in DOMAIN @ |->
                IF k \in DOMAIN stateUpdate THEN stateUpdate[k] ELSE @[k] ] ] ]

\* updateState: stateUpdate is a function from some state keys to booleans
updateState(ss, sessionId, stateUpdate) ==
    IF sessionId \notin DOMAIN ss THEN ss
    ELSE [ getSession(ss, sessionId) EXCEPT ![sessionId].state =
             [ k \in DOMAIN @ |->
                 IF k \in DOMAIN stateUpdate THEN stateUpdate[k] ELSE @[k] ] ]

\* updateMetadata: metadata is a function from some metadata keys to values
updateMetadata(ss, sessionId, metadata) ==
    IF sessionId \notin DOMAIN ss THEN ss
    ELSE [ getSession(ss, sessionId) EXCEPT ![sessionId].metadata =
             [ k \in DOMAIN @ |->
                 IF k \in DOMAIN metadata THEN metadata[k] ELSE @[k] ] ]

\* setProviders
setProviders(ss, sessionId) ==
    IF sessionId \notin DOMAIN ss THEN ss
    ELSE [ getSession(ss, sessionId) EXCEPT ![sessionId].providers = TRUE ]

\* getProviders, the effect on the registry: the lookup goes through
\* getSession
getProviders(ss, sessionId) == getSession(ss, sessionId)

\* getSessionStats, the effect on the registry: the lookup goes through
\* getSession
getSessionStats(ss, sessionId) == getSession(ss, sessionId)

\* listActiveSessions, the effect on the registry: getSessionStats for every
\* entry whose state is active
listActiveSessions(ss) ==
    [ id \in DOMAIN ss |->
        IF ss[id].state.isActive THEN getSessionStats(ss, id)[id] ELSE ss[id] ]

\* destroySession, the registry side: the entry is removed
removeSession(ss, sessionId) ==
    [ id \in (DOMAIN ss) \ {sessionId} |-> ss[id] ]

\* the history bookkeeping that goes with createSession / addMessage /
\* destroySession
addedAfterCreate(a, sessionId) ==
    [ id \in (DOMAIN a) \cup {sessionId} |-> IF id = sessionId THEN 0 ELSE a[id] ]

addedAfterAdd(a, sessionId) ==
    IF sessionId \in DOMAIN a THEN [ a EXCEPT ![sessionId] = @ + 1 ] ELSE a

addedAfterDestroy(a, sessionId) ==
    [ id \in (DOMAIN a) \ {sessionId} |-> a[id] ]

-----------------------------------------------------------------------------
(* ElevenLabsTTS adapter *)

\* the fields of a freshly constructed adapter; ws is "null", or the
\* readyState of the WebSocket it holds
NewTTS ==
    [ ws |-> "null", isReady |-> FALSE, isCancelled |-> FALSE,
      audioCallback |-> FALSE, completeCallback |-> FALSE,
      disconnecting |-> FALSE ]

\* frames the adapter writes upstream
bosMessage == [ text |-> <<" ">>, kind |-> "bos", flush |-> FALSE ]

textMessage(text, flush) == [ text |-> text, kind |-> "text", flush |-> flush ]

flushMessage == [ text |-> <<" ">>, kind |-> "flush", flush |-> TRUE ]

eosMessage == [ text |-> <<>>, kind |-> "eos", flush |-> FALSE ]

ttsIsConnected(t) == t.ws = "open" /\ t.isReady

\* connect(): new WebSocket(...)
ttsConnect(t) == [ t EXCEPT !.ws = "connecting" ]

\* ws.on('open'): the BOS frame is sent and the adapter becomes ready
ttsOnOpen(t) ==
    [ tts |-> [ t EXCEPT !.ws = "open", !.isReady = TRUE, !.isCancelled = FALSE ],
      frames |-> << bosMessage >> ]

\* synthesize(text, flush): throws when not connected, ignores blank text,
\* otherwise clears the cancel flag and sends the text frame
synthesize(t, text, flush) ==
    IF ~ttsIsConnected(t)
    THEN [ tts |-> t, frames |-> <<>>, threw |-> TRUE ]
    ELSE IF Trim(text) = <<>>
    THEN [ tts |-> t, frames |-> <<>>, threw |-> FALSE ]
    ELSE [ tts |-> [ t EXCEPT !.isCancelled = FALSE ],
           frames |-> << textMessage(text, flush) >>,
           threw |-> FALSE ]

\* mutant of cancel(): the earlier behaviour, end-of-stream and close
ttsCancel_ClosesSocket(t) ==
    IF ttsIsConnected(t)
    THEN [ tts |-> [ t EXCEPT !.ws = "closed", !.isReady = FALSE ],
           frames |-> << eosMessage >> ]
    ELSE [ tts |-> t, frames |-> <<>> ]

\* cancel(): on a connected adapter sends the single-space flush frame
ttsCancel(t) ==
    IF ttsIsConnected(t)
    THEN [ tts |-> t, frames |-> << flushMessage >> ]
    ELSE [ tts |-> t, frames |-> <<>> ]

\* ws.on('message'): msg.audio / msg.isFinal say what the envelope carries,
\* msg.binary that the frame is raw audio and not JSON.  The result says
\* which sinks were invoked.
ttsOnMessage(t, msg) ==
    IF t.isCancelled
    THEN [ tts |-> t, audio |-> FALSE, complete |-> FALSE ]
    ELSE IF msg.binary
    THEN [ tts |-> t, audio |-> t.audioCallback, complete |-> FALSE ]
    ELSE [ tts |-> IF msg.isFinal THEN [ t EXCEPT !.isCancelled = FALSE ] ELSE t,
           audio |-> msg.audio /\ t.audioCallback,
           complete |-> msg.isFinal /\ t.completeCallback ]

\* ws.on('close')
ttsOnClose(t) == [ t EXCEPT !.ws = "closed", !.isReady = FALSE ]

\* disconnect(), after the wait: the socket is closed, the fields are reset
ttsDisconnectEnd(t) ==
    [ t EXCEPT !.ws = "null", !.audioCallback = FALSE,
               !.completeCallback = FALSE, !.isReady = FALSE,
               !.isCancelled = FALSE, !.disconnecting = FALSE ]

\* disconnect(), up to the 100 ms wait: a connected adapter sends the EOS
\* frame and waits; otherwise there is no wait and the socket is closed at once
ttsDisconnectBegin(t) ==
    IF ttsIsConnected(t)
    THEN [ tts |-> [ t EXCEPT !.disconnecting = TRUE ], frames |-> << eosMessage >> ]
    ELSE [ tts |-> ttsDisconnectEnd(t), frames |-> <<>> ]

(* The synthesizer behind the socket.  queue holds, for every text frame it
   has received and not yet voiced, the output generation in which the text
   was submitted; active says that text arrived since its last isFinal
   message; eos that it received the end-of-stream frame. *)
NewUpstream == [ queue |-> <<>>, active |-> FALSE, eos |-> FALSE ]

RECURSIVE upstreamReceive(_, _, _)
upstreamReceive(u, frames, gen) ==
    IF frames = <<>> THEN u
    ELSE LET f == Head(frames)
             u1 == CASE f.kind = "text" ->
                          [ u EXCEPT !.queue = Append(@, gen), !.active = TRUE ]
                     [] f.kind = "eos" -> [ u EXCEPT !.eos = TRUE ]
                     [] OTHER -> u
         IN upstreamReceive(u1, Tail(frames), gen)

-----------------------------------------------------------------------------
(* DeepgramSTT adapter *)

\* the fields of a freshly constructed adapter.  connection says that the
\* adapter holds a live-transcription connection, socket is the state of that
\* connection's socket ("none" before connect), heard that the recognizer
\* has received audio it has not answered with a final transcript yet.
\* pending is the promise of the latest connect() call ("none" before the
\* first call); leaked counts the sockets the adapter opened and dropped its
\* reference to without closing them.
NewSTT ==
    [ connection |-> FALSE, socket |-> "none", isActive |-> FALSE,
      transcriptCallback |-> FALSE, heard |-> 0, pending |-> "none",
      leaked |-> 0 ]

sttIsConnected(s) == s.connection /\ s.socket = "open" /\ s.isActive

\* connect(), up to the wait for the Open event: a new client and a new
\* live connection replace the ones the adapter holds, whatever their state
sttConnect(s) ==
    [ s EXCEPT !.connection = TRUE, !.socket = "connecting",
               !.pending = "waiting",
               !.leaked = IF s.socket \in {"connecting", "open"} THEN @ + 1 ELSE @ ]

\* the Open event: the first listener sets isActive, the second clears the
\* timer and resolves the promise, which has no effect on a settled one
sttOnOpen(s) ==
    [ s EXCEPT !.socket = "open", !.isActive = TRUE,
               !.pending = IF @ = "waiting" THEN "resolved" ELSE @ ]

\* the Error event while connecting: the promise is rejected, the socket
\* does not open
sttOnConnectError(s) ==
    [ s EXCEPT !.socket = "closed",
               !.pending = IF @ = "waiting" THEN "rejected" ELSE @ ]

\* the 5 s timer of connect() fires before the Open event: the promise is
\* rejected and nothing else is done
sttOnConnectTimeout(s) == [ s EXCEPT !.pending = "rejected" ]

\* disconnect(): finish() asks the recognizer to close an open socket; the
\* references are dropped
sttDisconnect(s) ==
    IF ~s.connection THEN s
    ELSE [ s EXCEPT !.socket = IF @ = "open" THEN "closed" ELSE @,
                    !.isActive = FALSE, !.connection = FALSE,
                    !.transcriptCallback = FALSE ]

\* the Transcript event: the text is trimmed, an empty text is dropped and
\* the callback, when there is one, receives the rest; <<>> stands for no call
sttOnTranscript(s, transcript) ==
    IF Trim(transcript) = <<>> \/ ~s.transcriptCallback THEN <<>>
    ELSE << Trim(transcript) >>

-----------------------------------------------------------------------------
(* GroqSTT adapter (the buffered STT adapter).  A chunk is identified by the
   number of the sendAudio call that passed it; inflight holds the
   transcription requests that were made and have not completed.  timers
   counts the intervals that were started and not cleared.  requests,
   delivered, errors, threw, sent, last, sweeps and connects are history:
   what the adapter did to its upstream, to its sinks and to its caller. *)

\* the size under which sendAudio drops a chunk, in bytes
MinChunkBytes == 30000

\* the size under which processBufferedAudio drops the accumulated audio
MinBufferBytes == 32000

NewGroq ==
    [ client             |-> FALSE,
      isActive           |-> FALSE,
      transcriptCallback |-> FALSE,
      errorCallback      |-> FALSE,
      audioBuffer        |-> <<>>,
      processingInterval |-> FALSE,
      inflight           |-> {},
      requests           |-> 0,
      delivered          |-> <<>>,
      errors             |-> 0,
      threw              |-> FALSE,
      sent               |-> 0,
      last               |-> 0,
      sweeps             |-> 0,
      timers             |-> 0,
      connects           |-> 0 ]

RECURSIVE byteLength(_)
byteLength(chunks) ==
    IF chunks = <<>> THEN 0 ELSE Head(chunks) + byteLength(Tail(chunks))

\* connect(), with an API key configured: startBufferProcessing() starts an
\* interval and stores it, whatever the field held
groqConnect(g) ==
    [ g EXCEPT !.client = TRUE, !.isActive = TRUE, !.processingInterval = TRUE,
               !.timers = @ + 1, !.connects = @ + 1, !.threw = FALSE ]

\* onTranscript() and onError()
groqRegister(g) ==
    [ g EXCEPT !.transcriptCallback = TRUE, !.errorCallback = TRUE ]

\* transcribeChunk() up to the transcription request
transcribeChunk(g, chunk) ==
    IF ~g.isActive THEN g
    ELSE [ g EXCEPT !.requests = @ + 1,
                    !.inflight = @ \cup { [ chunk |-> chunk ] } ]

groqTooSmall_Never(size) == FALSE

\* the test of sendAudio for a chunk that is too short to recognize
groqTooSmall(size) == size < MinChunkBytes

\* sendAudio(audioBuffer), for a chunk of the given size
groqSendAudio(g, size) ==
    LET g0 == [ g EXCEPT !.sent = @ + 1, !.last = size, !.threw = FALSE ]
    IN  IF ~g.isActive THEN [ g0 EXCEPT !.threw = TRUE ]
        ELSE IF size = 0 THEN g0
        ELSE IF groqTooSmall(size) THEN g0
        ELSE transcribeChunk(g0, g0.sent)

\* transcribeChunk() after the transcription request returned a text
groqTranscription(g, r, text) ==
    LET g1 == [ g EXCEPT !.inflight = @ \ {r} ]
    IN  IF Trim(text) = <<>> THEN g1
        ELSE IF g.transcriptCallback
             THEN [ g1 EXCEPT !.delivered = Append(@, r.chunk) ]
             ELSE g1

\* the catch of transcribeChunk() after the transcription request failed
groqTranscriptionError(g, r) ==
    LET g1 == [ g EXCEPT !.inflight = @ \ {r} ]
    IN  IF g.errorCallback THEN [ g1 EXCEPT !.errors = @ + 1 ] ELSE g1

\* processBufferedAudio() up to the transcription request; the request of
\* accumulated audio carries the chunk number 0
processBufferedAudio(g) ==
    IF Len(g.audioBuffer) = 0 \/ ~g.isActive THEN g
    ELSE LET g1 == [ g EXCEPT !.audioBuffer = <<>> ]
         IN  IF byteLength(g.audioBuffer) < MinBufferBytes THEN g1
             ELSE [ g1 EXCEPT !.requests = @ + 1,
                              !.inflight = @ \cup { [ chunk |-> 0 ] } ]

\* the callback of the interval started by startBufferProcessing()
groqSweep(g) ==
    LET g0 == [ g EXCEPT !.sweeps = @ + 1 ]
    IN  IF Len(g.audioBuffer) > 0 THEN processBufferedAudio(g0) ELSE g0

\* mutant of disconnect(): the interval is left running
groqDisconnect_KeepsTimer(g) ==
    IF ~g.isActive THEN g
    ELSE [ g EXCEPT !.isActive = FALSE, !.client = FALSE,
                    !.transcriptCallback = FALSE, !.errorCallback = FALSE,
                    !.processingInterval = FALSE, !.audioBuffer = <<>> ]

\* disconnect()
groqDisconnect(g) ==
    IF ~g.isActive THEN g
    ELSE LET g1 == [ g EXCEPT !.processingInterval = FALSE,
                              !.timers = IF g.processingInterval THEN @ - 1 ELSE @ ]
             g2 == IF Len(g1.audioBuffer) > 0 THEN processBufferedAudio(g1) ELSE g1
         IN  [ g2 EXCEPT !.isActive = FALSE,
                         !.client = FALSE,
                         !.transcriptCallback = FALSE,
                         !.errorCallback = FALSE,
                         !.audioBuffer = <<>> ]

-----------------------------------------------------------------------------
(* The connection's handler and the frames it writes to the client *)

\* constructor of VoiceConversationHandler; exists is false until the init
\* frame creates the handler
NoHandler ==
    [ exists |-> FALSE, wsOpen |-> TRUE, isAgentSpeaking |-> FALSE,
      pendingLLMResponse |-> <<>>, outputQueue |-> <<>> ]

AudioFrame(gen) == [ kind |-> "audio", gen |-> gen ]

EventFrame(e) == [ kind |-> "event", event |-> e ]

ErrorFrame(e) == [ kind |-> "error", error |-> e ]

\* the session of the connection
SID == "s1"

\* the session of another connection, and that connection: the frames its
\* latest step wrote to its own client socket, and the steps it took
PID == "s2"

NewPeer == [ out |-> <<>>, steps |-> 0 ]

(* The handler's methods are functions of a "world" record w that gathers
   what they read and write: the registry (sessions), the handler's fields
   (handler), the TTS adapter (tts), the synthesizer's side of its socket
   (up), the frames written to the TTS socket (sent) and to the client (out)
   by the running step, the history variables (gen, cancelPending, added),
   and the STT adapter, the LLM adapter and the streams (stt, llm, procs). *)
World ==
    [ sessions |-> sessions, handler |-> handler, tts |-> tts,
      up |-> ttsUpstream, sent |-> <<>>, out |-> <<>>, gen |-> generation,
      cancelPending |-> ttsCancelPending, added |-> added,
      stt |-> stt, llm |-> llm, procs |-> procs ]

\* sendEvent / sendError / sendAudio: nothing is written unless the client
\* socket is open
send(w, frame) ==
    IF w.handler.wsOpen THEN [ w EXCEPT !.out = Append(@, frame) ] ELSE w

sendEvent(w, e) == send(w, EventFrame(e))

sendError(w, e) == send(w, ErrorFrame(e))

\* synthesizeSentence(text, flush)
synthesizeSentence(w, text, flush) ==
    IF Trim(text) = <<>> THEN w
    ELSE
      LET w1 == [ w EXCEPT
                    !.handler.isAgentSpeaking = TRUE,
                    !.sessions = updateState(@, SID, [ k \in {"ttsStreaming"} |-> TRUE ]) ]
          r == synthesize(w1.tts, text, flush)
      IN IF r.threw THEN sendError(w1, "synthesis_error")
         ELSE
           LET w2 == [ w1 EXCEPT
                         !.tts = r.tts,
                         !.sent = @ \o r.frames,
                         !.up = upstreamReceive(@, r.frames, w1.gen),
                         !.cancelPending = (@ /\ r.frames = <<>>) ]
           IN IF flush
              THEN [ w2 EXCEPT !.sessions =
                       updateState(@, SID, [ k \in {"ttsStreaming"} |-> FALSE ]) ]
              ELSE w2

\* OpenAILLM.cancel(): the controller held by the adapter is aborted and
\* dropped; aborted names the stream whose signal fires (0: none)
llmCancel(l) == [ llm |-> [ l EXCEPT !.abortController = 0 ],
                  aborted |-> l.abortController ]

\* mutant of handleUserInterruption: the client is not notified
handleUserInterruption_NoEvent(w) ==
    [ w EXCEPT !.handler.isAgentSpeaking = FALSE,
               !.handler.pendingLLMResponse = <<>>,
               !.gen = @ + 1 ]

\* mutant of handleUserInterruption: the state flags are not reset
handleUserInterruption_KeepsFlags(w) ==
    sendEvent([ w EXCEPT !.handler.isAgentSpeaking = FALSE,
                         !.handler.pendingLLMResponse = <<>>,
                         !.gen = @ + 1 ],
              "interruption_processed")

\* handleUserInterruption, the part that acts on the world: TTS cancel, reset
\* of the handler's fields and of the state flags, interruption_processed
handleUserInterruption(w) ==
    LET r == ttsCancel(w.tts)
        w1 == [ w EXCEPT
                  !.tts = r.tts,
                  !.sent = @ \o r.frames,
                  !.up = upstreamReceive(@, r.frames, w.gen),
                  !.cancelPending = (@ \/ ttsIsConnected(w.tts)),
                  \* audioBuffer.cancelPlayback empties the output queue
                  !.handler.outputQueue = <<>>,
                  !.handler.isAgentSpeaking = FALSE,
                  !.handler.pendingLLMResponse = <<>>,
                  !.sessions = updateState(@, SID,
                       [ k \in {"llmStreaming", "ttsStreaming"} |-> FALSE ]),
                  !.gen = @ + 1 ]
    IN sendEvent(w1, "interruption_processed")

-----------------------------------------------------------------------------
(* Messages from the synthesizer, shared by all specifications *)

\* an audio message for the oldest text not yet voiced; the audio sink is
\* handleTTSAudioChunk -> sendAudio
TTSAudioMessage ==
    /\ tts.ws = "open"
    /\ ttsUpstream.queue # <<>>
    /\ \E binary \in BOOLEAN :
         LET r == ttsOnMessage(tts, [ audio |-> TRUE, isFinal |-> FALSE,
                                      binary |-> binary ])
         IN /\ tts' = r.tts
            /\ wsOut' = IF r.audio /\ handler.wsOpen
                        THEN << AudioFrame(Head(ttsUpstream.queue)) >>
                        ELSE <<>>
    /\ ttsUpstream' = [ ttsUpstream EXCEPT !.queue = Tail(@) ]
    /\ ttsSent' = <<>>
    /\ UNCHANGED <<groq, peer, maxHistoryMessages, timeoutMs, sessions, handler, procs, nprocs, llm,
                   stt, audioIn, generation, ttsCancelPending, added, calls, lifeVars>>

\* the isFinal message; the completion sink is the onComplete callback of
\* initialize
TTSFinalMessage ==
    /\ tts.ws = "open"
    /\ ttsUpstream.queue = <<>>
    /\ ttsUpstream.active
    /\ LET r == ttsOnMessage(tts, [ audio |-> FALSE, isFinal |-> TRUE,
                                    binary |-> FALSE ])
       IN /\ tts' = r.tts
          /\ handler' = IF r.complete
                        THEN [ handler EXCEPT !.isAgentSpeaking = FALSE ]
                        ELSE handler
          /\ wsOut' = IF r.complete /\ handler.wsOpen
                      THEN << EventFrame("agent_finished_speaking") >>
                      ELSE <<>>
    /\ ttsUpstream' = [ ttsUpstream EXCEPT !.active = FALSE ]
    /\ ttsSent' = <<>>
    /\ UNCHANGED <<groq, peer, maxHistoryMessages, timeoutMs, sessions, procs, nprocs, llm,
                   stt, audioIn, generation, ttsCancelPending, added, calls, lifeVars>>

-----------------------------------------------------------------------------
(* SpecTTS: the TTS adapter driven call by call *)

TTSTexts == { <<"H", "i", ".">>, <<"o", "k">>, <<" ">> }

InitCommon ==
    /\ sessions = << >>
    /\ handler = NoHandler
    /\ procs = << >>
    /\ nprocs = 0
    /\ llm = [ abortController |-> 0 ]
    /\ tts = NewTTS
    /\ ttsUpstream = NewUpstream
    /\ ttsSent = <<>>
    /\ stt = NewSTT
    /\ wsOut = <<>>
    /\ audioIn = 0
    /\ generation = 0
    /\ ttsCancelPending = FALSE
    /\ added = << >>
    /\ calls = 0
    /\ now = 0
    /\ tickDue = FALSE
    /\ initPc = "none"
    /\ cleanupPc = "none"
    /\ reapPc = "none"
    /\ orphaned = 0
    /\ inits = 0
    /\ groq = NewGroq
    /\ peer = NewPeer

InitDriver ==
    /\ maxHistoryMessages = 1
    /\ timeoutMs = 1
    /\ InitCommon

NonTTSVars ==
    <<groq, peer, maxHistoryMessages, timeoutMs, sessions, handler, procs, nprocs, llm, stt,
      audioIn, added, lifeVars>>

DrvConnect ==
    /\ calls < MaxCalls
    /\ tts.ws \in {"null", "closed"}
    /\ ~tts.disconnecting
    /\ tts' = ttsConnect(tts)
    /\ ttsUpstream' = NewUpstream
    /\ ttsSent' = <<>>
    /\ wsOut' = <<>>
    /\ calls' = calls + 1
    /\ UNCHANGED <<generation, ttsCancelPending>>
    /\ UNCHANGED NonTTSVars

DrvOnCallbacks ==
    /\ ~tts.audioCallback
    /\ tts' = [ tts EXCEPT !.audioCallback = TRUE, !.completeCallback = TRUE ]
    /\ ttsSent' = <<>>
    /\ wsOut' = <<>>
    /\ UNCHANGED <<ttsUpstream, generation, ttsCancelPending, calls>>
    /\ UNCHANGED NonTTSVars

TTSOpen ==
    /\ tts.ws = "connecting"
    /\ LET r == ttsOnOpen(tts)
       IN /\ tts' = r.tts
          /\ ttsSent' = r.frames
          /\ ttsUpstream' = upstreamReceive(ttsUpstream, r.frames, generation)
    /\ ttsCancelPending' = FALSE
    /\ wsOut' = <<>>
    /\ UNCHANGED <<generation, calls>>
    /\ UNCHANGED NonTTSVars

DrvSynthesize ==
    /\ calls < MaxCalls
    /\ \E text \in TTSTexts, flush \in BOOLEAN :
         LET r == synthesize(tts, text, flush)
         IN /\ tts' = r.tts
            /\ ttsSent' = r.frames
            /\ ttsUpstream' = upstreamReceive(ttsUpstream, r.frames, generation)
            /\ ttsCancelPending' = IF r.frames # <<>> THEN FALSE
                                   ELSE ttsCancelPending
    /\ wsOut' = <<>>
    /\ calls' = calls + 1
    /\ UNCHANGED generation
    /\ UNCHANGED NonTTSVars

DrvCancel ==
    /\ calls < MaxCalls
    /\ LET r == ttsCancel(tts)
       IN /\ tts' = r.tts
          /\ ttsSent' = r.frames
          /\ ttsUpstream' = upstreamReceive(ttsUpstream, r.frames, generation)
    /\ ttsCancelPending' = (ttsCancelPending \/ ttsIsConnected(tts))
    /\ generation' = generation + 1
    /\ wsOut' = <<>>
    /\ calls' = calls + 1
    /\ UNCHANGED NonTTSVars

\* the synthesizer (or the network) closes the socket
TTSRemoteClose ==
    /\ tts.ws = "open"
    /\ tts' = ttsOnClose(tts)
    /\ ttsSent' = <<>>
    /\ wsOut' = <<>>
    /\ UNCHANGED <<ttsUpstream, generation, ttsCancelPending, calls>>
    /\ UNCHANGED NonTTSVars

DrvDisconnectBegin ==
    /\ calls < MaxCalls
    /\ ~tts.disconnecting
    /\ LET r == ttsDisconnectBegin(tts)
       IN /\ tts' = r.tts
          /\ ttsSent' = r.frames
          /\ ttsUpstream' = upstreamReceive(ttsUpstream, r.frames, generation)
          /\ ttsCancelPending' = (ttsCancelPending /\ r.tts.ws # "null")
    /\ wsOut' = <<>>
    /\ calls' = calls + 1
    /\ UNCHANGED generation
    /\ UNCHANGED NonTTSVars

DrvDisconnectEnd ==
    /\ tts.disconnecting
    /\ tts' = ttsDisconnectEnd(tts)
    /\ ttsCancelPending' = FALSE
    /\ ttsSent' = <<>>
    /\ wsOut' = <<>>
    /\ UNCHANGED <<ttsUpstream, generation, calls>>
    /\ UNCHANGED NonTTSVars

NextTTS ==
    \/ DrvConnect
    \/ DrvOnCallbacks
    \/ TTSOpen
    \/ DrvSynthesize
    \/ DrvCancel
    \/ TTSAudioMessage
    \/ TTSFinalMessage
    \/ TTSRemoteClose
    \/ DrvDisconnectBegin
    \/ DrvDisconnectEnd

SpecTTS == InitDriver /\ [][NextTTS]_vars

-----------------------------------------------------------------------------
(* Spec: one client connection and its pipeline *)

\* the text of the n-th utterance of the connection
UserText(n) == IF n % 2 = 1 THEN <<"h", "o", "l", "a">> ELSE <<"s", "i">>

\* the phrase the legacy handlers filter out of the recognizer's output:
\* "Subtítulos realizados por la comunidad de Amara.org"
frasesBasura ==
    { <<"S", "u", "b", "t", "í", "t", "u", "l", "o", "s", " ",
        "r", "e", "a", "l", "i", "z", "a", "d", "o", "s", " ",
        "p", "o", "r", " ", "l", "a", " ",
        "c", "o", "m", "u", "n", "i", "d", "a", "d", " ", "d", "e", " ",
        "A", "m", "a", "r", "a", ".", "o", "r", "g">> }

\* what the recognizer returns for the n-th utterance when it recognizes it:
\* the text, with whitespace around it
Utterance(n) == <<" ">> \o UserText(n)

\* what the recognizer may return for the n-th utterance: its text, a junk
\* phrase, or silence
RecognizedTexts(n) ==
    { Utterance(n), <<" ">> } \cup frasesBasura

\* config.session.maxHistoryMessages when MAX_HISTORY_MESSAGES is not set
DefaultMaxHistoryMessages == 15

\* config.session.timeoutMs when SESSION_TIMEOUT_MS is not set: 1800000 ms,
\* in units of 30 s
DefaultTimeout == 60

\* scenario 4 of the specification: "Vale.", " Te llamo", " por la", " fibra?"
Scenario4 ==
    << <<"V", "a", "l", "e", ".">>,
       <<" ", "T", "e", " ", "l", "l", "a", "m", "o">>,
       <<" ", "p", "o", "r", " ", "l", "a">>,
       <<" ", "f", "i", "b", "r", "a", "?">> >>

\* the fragment sequences the LLM upstream may produce for a reply
LLMReplies ==
    { Scenario4,
      << <<"S", "i", ".">>, <<" ", "Y", "a">> >>,
      << <<"O", "k">> >> }

\* one invocation of processUserMessage: its position (pc), the stream it
\* consumes (reply, pos, aborted), its local accumulatedText, and history
\* fields: userText, interrupted (a barge-in ran while it was streaming),
\* appended (the assistant contents it appended), synth (its calls of
\* ttsProvider.synthesize)
NewProc(userText, reply) ==
    [ pc |-> "streaming", reply |-> reply, pos |-> 0, aborted |-> FALSE,
      accumulatedText |-> <<>>, userText |-> userText, interrupted |-> FALSE,
      appended |-> <<>>, synth |-> <<>> ]

Streaming == { p \in 1..Len(procs) : procs[p].pc = "streaming" }

addMessageW(w, role, content) ==
    [ w EXCEPT !.sessions = addMessage(@, SID, role, content),
               !.added = addedAfterAdd(@, SID) ]

Commit(w) ==
    /\ sessions' = w.sessions
    /\ handler' = w.handler
    /\ tts' = w.tts
    /\ ttsUpstream' = w.up
    /\ ttsSent' = w.sent
    /\ wsOut' = w.out
    /\ generation' = w.gen
    /\ ttsCancelPending' = w.cancelPending
    /\ added' = w.added

\* Commit for the steps that also act on the STT adapter, the LLM adapter and
\* the streams
CommitAll(w) ==
    /\ Commit(w)
    /\ stt' = w.stt
    /\ llm' = w.llm
    /\ procs' = w.procs

Init ==
    /\ maxHistoryMessages = DefaultMaxHistoryMessages
    /\ timeoutMs = DefaultTimeout
    /\ InitCommon

\* initialize() up to the await of sttProvider.connect: the session is
\* created (replacing an entry of the same id), the adapters are constructed
initializeBegin(w) ==
    [ w EXCEPT !.sessions = createSession(@, SID),
               !.added = addedAfterCreate(@, SID),
               !.handler = [ NoHandler EXCEPT !.exists = TRUE,
                                              !.wsOpen = w.handler.wsOpen ],
               !.stt = sttConnect(NewSTT),
               !.llm = [ abortController |-> 0 ],
               !.tts = NewTTS,
               !.up = NewUpstream,
               !.cancelPending = FALSE ]

\* the catch of initialize() and, as it rethrows, the catch of the message
\* handler: two error frames, the second written without the readyState test
\* (a closed socket drops it)
initializeFailed(w) ==
    send(sendError(w, "init_error"), ErrorFrame("message_processing_error"))

\* the first init frame of the connection
InitFrame ==
    /\ ~handler.exists
    /\ handler.wsOpen
    /\ initPc = "none"
    /\ CommitAll(initializeBegin(World))
    /\ initPc' = "stt"
    /\ inits' = inits + 1
    /\ UNCHANGED <<groq, peer, maxHistoryMessages, timeoutMs, nprocs, audioIn, calls, now,
                   tickDue, cleanupPc, reapPc, orphaned>>

\* the recognizer's socket opens: connect() resolves and initialize() runs
\* up to the await of ttsProvider.connect
STTConnected ==
    /\ initPc = "stt"
    /\ stt.socket = "connecting"
    /\ LET w1 == [ World EXCEPT
                     !.stt = [ sttOnOpen(@) EXCEPT !.transcriptCallback = TRUE ],
                     !.sessions = updateState(@, SID,
                          [ k \in {"sttConnected"} |-> TRUE ]),
                     !.tts = ttsConnect(@) ]
       IN CommitAll(w1)
    /\ initPc' = "tts"
    /\ UNCHANGED <<groq, peer, maxHistoryMessages, timeoutMs, nprocs, audioIn, calls, now,
                   tickDue, cleanupPc, reapPc, orphaned, inits>>

\* the recognizer's socket fails to open (Error event or the 5 s timeout)
STTConnectFailed ==
    /\ initPc = "stt"
    /\ stt.socket = "connecting"
    /\ CommitAll(initializeFailed([ World EXCEPT !.stt = sttOnConnectError(@) ]))
    /\ initPc' = "failed"
    /\ UNCHANGED <<groq, peer, maxHistoryMessages, timeoutMs, nprocs, audioIn, calls, now,
                   tickDue, cleanupPc, reapPc, orphaned, inits>>

\* the synthesizer's socket opens: connect() resolves and initialize() runs
\* to its end
TTSConnected ==
    /\ initPc = "tts"
    /\ tts.ws = "connecting"
    /\ LET t == ttsOnOpen(tts)
           w1 == [ World EXCEPT
                     !.tts = [ t.tts EXCEPT !.audioCallback = TRUE,
                                            !.completeCallback = TRUE ],
                     !.sent = t.frames,
                     !.up = upstreamReceive(NewUpstream, t.frames, generation),
                     !.cancelPending = FALSE,
                     !.sessions =
                        updateState(
                          setProviders(
                            updateState(@, SID, [ k \in {"ttsConnected"} |-> TRUE ]),
                            SID),
                          SID, [ k \in {"isActive"} |-> TRUE ]) ]
       IN CommitAll(sendEvent(w1, "ready"))
    /\ initPc' = "ready"
    /\ UNCHANGED <<groq, peer, maxHistoryMessages, timeoutMs, nprocs, audioIn, calls, now,
                   tickDue, cleanupPc, reapPc, orphaned, inits>>

\* the synthesizer's socket fails to open, or was closed by disconnect()
\* before it opened: connect() rejects
TTSConnectFailed ==
    /\ initPc = "tts"
    /\ tts.ws \in {"connecting", "null"}
    /\ CommitAll(initializeFailed(
         [ World EXCEPT !.tts = IF @.ws = "connecting" THEN ttsOnClose(@) ELSE @ ]))
    /\ initPc' = "failed"
    /\ UNCHANGED <<groq, peer, maxHistoryMessages, timeoutMs, nprocs, audioIn, calls, now,
                   tickDue, cleanupPc, reapPc, orphaned, inits>>

\* a binary client frame: handleIncomingAudio
IncomingAudio ==
    /\ handler.exists
    /\ handler.wsOpen
    /\ LET bargeIn == handler.isAgentSpeaking
           c == llmCancel(llm)
           w1 == IF bargeIn THEN handleUserInterruption(World) ELSE World
           w2 == IF sttIsConnected(stt) THEN w1
                 ELSE sendError(w1, "audio_processing_error")
       IN /\ Commit(w2)
          /\ llm' = IF bargeIn THEN c.llm ELSE llm
          /\ procs' = IF bargeIn
                      THEN [ p \in 1..Len(procs) |->
                               IF procs[p].pc = "streaming"
                               THEN [ procs[p] EXCEPT
                                        !.interrupted = TRUE,
                                        !.aborted = (@ \/ p = c.aborted) ]
                               ELSE procs[p] ]
                      ELSE procs
    /\ stt' = IF sttIsConnected(stt) THEN [ stt EXCEPT !.heard = 1 ] ELSE stt
    /\ audioIn' = audioIn + 1
    /\ UNCHANGED <<groq, peer, maxHistoryMessages, timeoutMs, nprocs, calls, lifeVars>>

\* an interim transcript from the recognizer: handleTranscript(text, false)
STTPartialTranscript ==
    /\ stt.socket = "open"
    /\ stt.heard > 0
    /\ sttOnTranscript(stt, UserText(nprocs + 1)) # <<>>
    /\ Commit(sendEvent(World, "transcript_partial"))
    /\ UNCHANGED <<groq, peer, maxHistoryMessages, timeoutMs, procs, nprocs, llm, stt,
                   audioIn, calls, lifeVars>>

\* a final transcript of the recognizer: the Transcript event of the adapter,
\* handleTranscript(text, true) and processUserMessage up to the first await
\* of the LLM stream
FinalTranscript(transcript, reply) ==
    /\ stt.socket = "open"
    /\ stt.heard > 0
    /\ stt' = [ stt EXCEPT !.heard = 0 ]
    /\ LET delivered == sttOnTranscript(stt, transcript)
       IN IF delivered = <<>>
          THEN /\ Commit(World)
               /\ UNCHANGED <<procs, nprocs, llm>>
          ELSE LET userText == Trim(delivered[1] \o <<" ">>)
                   w1 == sendEvent(World, "transcript_final")
                   w2 == addMessageW(w1, "user", userText)
                   w3 == [ w2 EXCEPT
                             !.sessions = updateState(@, SID,
                                  [ k \in {"llmStreaming"} |-> TRUE ]),
                             !.handler.pendingLLMResponse = <<>> ]
               IN /\ Commit(w3)
                  /\ procs' = Append(procs, NewProc(userText, reply))
                  /\ nprocs' = nprocs + 1
                  /\ llm' = [ llm EXCEPT !.abortController = nprocs + 1 ]
    /\ UNCHANGED <<groq, peer, maxHistoryMessages, timeoutMs, audioIn, calls, lifeVars>>

\* the next fragment of stream p: one iteration of the for-await loop
LLMFragment(p) ==
    /\ procs[p].pc = "streaming"
    /\ ~procs[p].aborted
    /\ procs[p].pos < Len(procs[p].reply)
    /\ LET chunk == procs[p].reply[procs[p].pos + 1]
           acc == procs[p].accumulatedText \o chunk
           w1 == sendEvent([ World EXCEPT !.handler.pendingLLMResponse = @ \o chunk ],
                           "llm_chunk")
           delim == acc[Len(acc)] \in sentenceDelimiters
           w2 == IF delim THEN synthesizeSentence(w1, Trim(acc), FALSE) ELSE w1
       IN /\ Commit(w2)
          /\ procs' = [ procs EXCEPT
                          ![p].pos = @ + 1,
                          ![p].accumulatedText = IF delim THEN <<>> ELSE acc,
                          ![p].synth = IF delim /\ Trim(acc) # <<>>
                                       THEN Append(@, [ text |-> Trim(acc), flush |-> FALSE ])
                                       ELSE @ ]
    /\ UNCHANGED <<groq, peer, maxHistoryMessages, timeoutMs, nprocs, llm, stt, audioIn,
                   calls, lifeVars>>

\* mutant of the catch of streamResponse: the abort is not told apart
streamResponseCatch_Rethrows(errorName) == "throw"

\* the catch of streamResponse: an error named AbortError ends the stream,
\* any other error is rethrown (no error sink is registered on the adapter)
streamResponseCatch(errorName) ==
    IF errorName = "AbortError" THEN "return" ELSE "throw"

\* the errors the upstream raises into the stream: the abort of its signal,
\* or a failure of the request
UpstreamErrors(aborted) == IF aborted THEN {"AbortError"} ELSE {"APIError"}

\* stream p ends, normally or because the adapter swallowed the error: the
\* code after the loop
LLMStreamEnd(p) ==
    /\ procs[p].pc = "streaming"
    /\ \/ ~procs[p].aborted /\ procs[p].pos = Len(procs[p].reply)
       \/ \E e \in UpstreamErrors(procs[p].aborted) :
             procs[p].aborted /\ streamResponseCatch(e) = "return"
    /\ LET rest == Trim(procs[p].accumulatedText)
           w1 == IF Len(rest) > 0 THEN synthesizeSentence(World, rest, TRUE) ELSE World
           content == w1.handler.pendingLLMResponse
           w2 == addMessageW(w1, "assistant", content)
           w3 == [ w2 EXCEPT !.sessions =
                     updateState(@, SID, [ k \in {"llmStreaming"} |-> FALSE ]) ]
       IN /\ Commit(w3)
          /\ procs' = [ procs EXCEPT
                          ![p].pc = "done",
                          ![p].synth = IF Len(rest) > 0
                                       THEN Append(@, [ text |-> rest, flush |-> TRUE ])
                                       ELSE @,
                          ![p].appended = IF SID \in DOMAIN sessions
                                          THEN Append(@, content) ELSE @ ]
    /\ UNCHANGED <<groq, peer, maxHistoryMessages, timeoutMs, nprocs, llm, stt, audioIn,
                   calls, lifeVars>>

\* mutant of the catch of processUserMessage: the partial reply is recorded
processUserMessageCatch_AppendsPartial(w) ==
    [ addMessageW(sendError(w, "message_processing_error"), "assistant",
                  w.handler.pendingLLMResponse)
        EXCEPT !.sessions = updateState(@, SID, [ k \in {"llmStreaming"} |-> FALSE ]) ]

\* the catch of processUserMessage
processUserMessageCatch(w) ==
    [ sendError(w, "message_processing_error")
        EXCEPT !.sessions = updateState(@, SID, [ k \in {"llmStreaming"} |-> FALSE ]) ]

\* stream p throws: the upstream raised an error that the adapter rethrows,
\* and the exception reaches the catch of processUserMessage
LLMStreamError(p) ==
    /\ procs[p].pc = "streaming"
    /\ \E e \in UpstreamErrors(procs[p].aborted) : streamResponseCatch(e) = "throw"
    /\ Commit(processUserMessageCatch(World))
    /\ procs' = [ procs EXCEPT ![p].pc = "failed" ]
    /\ UNCHANGED <<groq, peer, maxHistoryMessages, timeoutMs, nprocs, llm, stt, audioIn,
                   calls, lifeVars>>

Next ==
    \/ InitFrame
    \/ STTConnected
    \/ STTConnectFailed
    \/ TTSConnected
    \/ TTSConnectFailed
    \/ audioIn < MaxAudioFrames /\ IncomingAudio
    \/ STTPartialTranscript
    \/ /\ nprocs < MaxTranscripts
       /\ \E reply \in LLMReplies : FinalTranscript(Utterance(nprocs + 1), reply)
    \/ \E p \in 1..Len(procs) : LLMFragment(p)
    \/ \E p \in 1..Len(procs) : LLMStreamEnd(p)
    \/ \E p \in 1..Len(procs) : LLMStreamError(p)
    \/ TTSAudioMessage
    \/ TTSFinalMessage

Spec == Init /\ [][Next]_vars

-----------------------------------------------------------------------------
(* Teardown: cleanup() of the handler and destroySession() of the registry *)

\* the effect of aborting the controller named target on the streams
abortStream(ps, target) ==
    [ p \in 1..Len(ps) |->
        IF p = target /\ ps[p].pc = "streaming"
        THEN [ ps[p] EXCEPT !.aborted = TRUE ] ELSE ps[p] ]

\* llmProvider.cancel()
llmCancelW(w) ==
    LET c == llmCancel(w.llm)
    IN [ w EXCEPT !.llm = c.llm, !.procs = abortStream(@, c.aborted) ]

\* ttsProvider.disconnect(), up to its wait
ttsDisconnectBeginW(w) ==
    LET r == ttsDisconnectBegin(w.tts)
    IN [ w EXCEPT !.tts = r.tts,
                  !.sent = @ \o r.frames,
                  !.up = upstreamReceive(@, r.frames, w.gen),
                  !.cancelPending = (@ /\ r.tts.ws # "null") ]

\* ttsProvider.disconnect(), after its wait
ttsDisconnectEndW(w) ==
    [ w EXCEPT !.tts = ttsDisconnectEnd(@), !.cancelPending = FALSE ]

\* destroySession up to the wait of tts.disconnect(): the lookup, and the
\* adapters stored in the session are disconnected.  wait says that
\* tts.disconnect() suspends, registered that the session holds its adapters.
destroySessionBegin(w) ==
    IF SID \notin DOMAIN w.sessions
    THEN [ w |-> w, found |-> FALSE, registered |-> FALSE, wait |-> FALSE ]
    ELSE LET registered == w.sessions[SID].providers
             w1 == [ w EXCEPT !.sessions = getSession(@, SID) ]
             w2 == IF registered THEN [ w1 EXCEPT !.stt = sttDisconnect(@) ] ELSE w1
             w3 == IF registered THEN ttsDisconnectBeginW(w2) ELSE w2
         IN [ w |-> w3, found |-> TRUE, registered |-> registered,
              wait |-> registered /\ ttsIsConnected(w2.tts) ]

\* destroySession from there: llm.cancel() of a stored adapter, and the entry
\* is deleted
destroySessionEnd(w, registered, waited) ==
    LET w1 == IF waited THEN ttsDisconnectEndW(w) ELSE w
        w2 == IF registered THEN llmCancelW(w1) ELSE w1
    IN [ w2 EXCEPT !.sessions = removeSession(@, SID),
                   !.added = addedAfterDestroy(@, SID) ]

\* cleanup() up to the wait of ttsProvider.disconnect()
cleanupBegin(w) ==
    LET w1 == [ w EXCEPT !.stt = sttDisconnect(@) ]
    IN [ w |-> ttsDisconnectBeginW(w1), wait |-> ttsIsConnected(w1.tts) ]

\* cleanup() from there: llm.cancel(), and destroySession, which does not
\* suspend because both adapters were disconnected by the lines above
cleanupEnd(w, waited) ==
    LET w1 == IF waited THEN ttsDisconnectEndW(w) ELSE w
        w2 == llmCancelW(w1)
        d == destroySessionBegin(w2)
    IN IF d.found THEN destroySessionEnd(d.w, d.registered, FALSE) ELSE d.w

\* mutant of the reaper's test: a session is reaped at the timeout already
isInactive_AtTimeout(session) == now - session.lastActivityAt >= timeoutMs

\* the test of the cleanup timer
isInactive(session) == now - session.lastActivityAt > timeoutMs

-----------------------------------------------------------------------------
(* SpecSession: the life of one connection, from init to teardown, with the
   clock and the cleanup timer of the registry.  The unit of time is half the
   period of the cleanup timer (30 s). *)

\* period of the cleanup timer: 60000 ms, in units of 30 s
ReaperInterval == 2

MaxTimeout == 1
MaxSessionInputs == 5

\* the inputs handled so far: init frames, audio frames, utterances and
\* units of time
SessionInputs == inits + audioIn + nprocs + now

SessionReplies == { << <<"S", "i", ".">>, <<" ", "Y", "a">> >> }

InitSession ==
    /\ maxHistoryMessages = DefaultMaxHistoryMessages
    /\ timeoutMs \in 1..MaxTimeout
    /\ InitCommon

\* an init frame on a connection that was initialized before: a new handler
\* replaces the old one, whose adapters stay as they are.  The replaced
\* handler is followed no further, so the frame is taken only when it has
\* nothing in flight.
ReInitFrame ==
    /\ handler.exists
    /\ handler.wsOpen
    /\ SessionInputs < MaxSessionInputs
    /\ initPc \in {"ready", "failed"}
    /\ cleanupPc = "none" /\ reapPc = "none"
    /\ Streaming = {}
    /\ ttsUpstream.queue = <<>> /\ ~ttsUpstream.active
    /\ stt.heard = 0
    /\ CommitAll(initializeBegin(World))
    /\ initPc' = "stt"
    /\ inits' = inits + 1
    /\ orphaned' = orphaned + (IF stt.socket = "open" THEN 1 ELSE 0)
                            + (IF tts.ws = "open" THEN 1 ELSE 0)
    /\ UNCHANGED <<groq, peer, maxHistoryMessages, timeoutMs, nprocs, audioIn, calls, now,
                   tickDue, cleanupPc, reapPc>>

\* JSON.parse(message.toString()): the parsed value, or a SyntaxError
JSONparse(message) ==
    IF message = "{\"type\":\"ping\"}"
    THEN [ threw |-> FALSE, type |-> "ping" ]
    ELSE [ threw |-> TRUE, type |-> "" ]

\* mutant of the message handler: a frame that cannot be read ends the session
onTextMessage_DropsSession(w, message) ==
    [ w EXCEPT !.sessions = removeSession(@, SID),
               !.out = Append(@, ErrorFrame("message_processing_error")) ]

\* the message handler on a text frame that is neither init nor metadata:
\* JSON.parse throws and the catch writes message_processing_error without
\* the readyState test; an object of another type falls through both
\* branches
onTextMessage(w, message) ==
    LET data == JSONparse(message)
    IN  IF data.threw
        THEN [ w EXCEPT !.out = Append(@, ErrorFrame("message_processing_error")) ]
        ELSE w

\* a text frame that is neither init nor metadata arrives on the open socket
TextFrame(message) ==
    /\ handler.wsOpen
    /\ CommitAll(onTextMessage(World, message))
    /\ UNCHANGED <<groq, peer, maxHistoryMessages, timeoutMs, nprocs,
                   audioIn, calls, lifeVars>>

\* a metadata frame carrying the given metadata
MetadataFrameOf(metadata) ==
    /\ handler.exists
    /\ handler.wsOpen
    /\ Commit([ World EXCEPT !.sessions = updateMetadata(@, SID, metadata) ])
    /\ UNCHANGED <<groq, peer, maxHistoryMessages, timeoutMs, procs, nprocs, llm, stt,
                   audioIn, calls, lifeVars>>

\* a metadata frame whose metadata object is empty
MetadataFrame == MetadataFrameOf([ k \in {} |-> "" ])

SessIncomingAudio ==
    /\ SessionInputs < MaxSessionInputs
    /\ IncomingAudio

\* the client socket closes: the close handler calls cleanup() when a
\* handler exists
ClientClose ==
    /\ handler.wsOpen
    /\ LET w0 == [ World EXCEPT !.handler.wsOpen = FALSE ]
           c == cleanupBegin(w0)
       IN IF ~handler.exists
          THEN CommitAll(w0) /\ cleanupPc' = cleanupPc
          ELSE IF c.wait
          THEN CommitAll(c.w) /\ cleanupPc' = "wait"
          ELSE CommitAll(cleanupEnd(c.w, FALSE)) /\ cleanupPc' = "done"
    /\ UNCHANGED <<groq, peer, maxHistoryMessages, timeoutMs, nprocs, audioIn, calls, now,
                   tickDue, initPc, reapPc, orphaned, inits>>

\* cleanup() resumes after the wait of ttsProvider.disconnect()
CleanupResume ==
    /\ cleanupPc = "wait"
    /\ CommitAll(cleanupEnd(World, TRUE))
    /\ cleanupPc' = "done"
    /\ UNCHANGED <<groq, peer, maxHistoryMessages, timeoutMs, nprocs, audioIn, calls, now,
                   tickDue, initPc, reapPc, orphaned, inits>>

\* time passes; the waits of 100 ms end before 30 s have passed
Advance ==
    /\ SessionInputs < MaxSessionInputs
    /\ ~tickDue
    /\ cleanupPc # "wait" /\ reapPc # "wait"
    /\ now' = now + 1
    /\ tickDue' = ((now + 1) % ReaperInterval = 0)
    /\ wsOut' = <<>>
    /\ ttsSent' = <<>>
    /\ UNCHANGED <<groq, peer, maxHistoryMessages, timeoutMs, sessions, handler, procs,
                   nprocs, llm, tts, ttsUpstream, stt, audioIn, generation,
                   ttsCancelPending, added, calls, initPc, cleanupPc, reapPc,
                   orphaned, inits>>

\* the callback of the cleanup timer: destroySession for the inactive session
ReaperTick ==
    /\ tickDue
    /\ tickDue' = FALSE
    /\ LET d == destroySessionBegin(World)
       IN IF SID \in DOMAIN sessions /\ isInactive(sessions[SID])
          THEN IF d.wait
               THEN CommitAll(d.w) /\ reapPc' = "wait"
               ELSE CommitAll(destroySessionEnd(d.w, d.registered, FALSE))
                    /\ reapPc' = reapPc
          ELSE CommitAll(World) /\ reapPc' = reapPc
    /\ UNCHANGED <<groq, peer, maxHistoryMessages, timeoutMs, nprocs, audioIn, calls, now,
                   initPc, cleanupPc, orphaned, inits>>

\* the reaper's destroySession resumes after the wait of tts.disconnect()
ReapResume ==
    /\ reapPc = "wait"
    /\ CommitAll(destroySessionEnd(World, TRUE, TRUE))
    /\ reapPc' = "none"
    /\ UNCHANGED <<groq, peer, maxHistoryMessages, timeoutMs, nprocs, audioIn, calls, now,
                   tickDue, initPc, cleanupPc, orphaned, inits>>

NextSession ==
    \/ InitFrame
    \/ ReInitFrame
    \/ STTConnected
    \/ STTConnectFailed
    \/ TTSConnected
    \/ TTSConnectFailed
    \/ MetadataFrame
    \/ SessIncomingAudio
    \/ STTPartialTranscript
    \/ /\ SessionInputs < MaxSessionInputs
       /\ \E transcript \in RecognizedTexts(nprocs + 1), reply \in SessionReplies :
             FinalTranscript(transcript, reply)
    \/ \E p \in 1..Len(procs) : LLMFragment(p)
    \/ \E p \in 1..Len(procs) : LLMStreamEnd(p)
    \/ \E p \in 1..Len(procs) : LLMStreamError(p)
    \/ TTSAudioMessage
    \/ TTSFinalMessage
    \/ ClientClose
    \/ CleanupResume
    \/ Advance
    \/ ReaperTick
    \/ ReapResume

SpecSession == InitSession /\ [][NextSession]_vars

-----------------------------------------------------------------------------
(* Claims about the TTS adapter, checked under SpecTTS *)

NonBlankTexts == { t \in TTSTexts : Trim(t) # <<>> }

\* C8: a cancel() on a connected adapter leaves the adapter connected and
\* sends no empty-text (end-of-stream) frame, and in the state it leaves every
\* synthesize of a non-blank text is accepted and forwarded as a text frame.
C8_CancelKeepsConnection ==
    [][ (DrvCancel /\ ttsIsConnected(tts)) =>
          /\ ttsIsConnected(tts)'
          /\ \A i \in 1..Len(ttsSent') :
               ttsSent'[i].text # <<>> /\ ttsSent'[i].kind # "eos"
          /\ \A text \in NonBlankTexts, flush \in BOOLEAN :
               /\ ~synthesize(tts, text, flush).threw'
               /\ synthesize(tts, text, flush).frames' = << textMessage(text, flush) >>
      ]_vars

\* C8 witness: a second (or later) cancel() has just run on a connected adapter
C8_Witness ==
    /\ generation >= 2
    /\ ttsCancelPending
    /\ ttsSent = << flushMessage >>
    /\ ttsIsConnected(tts)

-----------------------------------------------------------------------------
(* SpecRegistry: the SessionManager driven call by call *)

RegContents == { <<"a">>, <<"b">> }

StateUpdates ==
    { [ k \in {"llmStreaming"} |-> b ] : b \in BOOLEAN } \cup
    { [ k \in {"llmStreaming", "ttsStreaming"} |-> FALSE ] } \cup
    { [ k \in {"isActive"} |-> TRUE ] }

InitRegistry ==
    /\ maxHistoryMessages \in 1..MaxConfiguredHistory
    /\ timeoutMs = 1
    /\ InitCommon

NonRegistryVars ==
    <<groq, peer, maxHistoryMessages, timeoutMs, handler, procs, nprocs, llm, tts, ttsUpstream,
      ttsSent, stt, wsOut, audioIn, generation, ttsCancelPending, lifeVars>>

RegCreateSession ==
    /\ calls < MaxCalls
    /\ \E id \in SessionIds :
         /\ sessions' = createSession(sessions, id)
         /\ added' = addedAfterCreate(added, id)
    /\ calls' = calls + 1
    /\ UNCHANGED NonRegistryVars

AddMessageCall(id, role, content) ==
    /\ calls < MaxCalls
    /\ sessions' = addMessage(sessions, id, role, content)
    /\ added' = addedAfterAdd(added, id)
    /\ calls' = calls + 1
    /\ UNCHANGED NonRegistryVars

RegAddMessage ==
    \E id \in SessionIds, role \in Roles, content \in RegContents :
        AddMessageCall(id, role, content)

RegUpdateState ==
    /\ calls < MaxCalls
    /\ \E id \in SessionIds, u \in StateUpdates :
         sessions' = updateState(sessions, id, u)
    /\ calls' = calls + 1
    /\ UNCHANGED added
    /\ UNCHANGED NonRegistryVars

RegDestroySession ==
    /\ calls < MaxCalls
    /\ \E id \in DOMAIN sessions :
         /\ sessions' = removeSession(sessions, id)
         /\ added' = addedAfterDestroy(added, id)
    /\ calls' = calls + 1
    /\ UNCHANGED NonRegistryVars

\* one of the four queries of the registry; getFormattedHistory looks the
\* session up through getSession like the others
RegQuery ==
    /\ calls < MaxCalls
    /\ \/ \E id \in SessionIds :
            \/ sessions' = getSessionStats(sessions, id)
            \/ sessions' = getProviders(sessions, id)
            \/ sessions' = getSession(sessions, id)
       \/ sessions' = listActiveSessions(sessions)
    /\ calls' = calls + 1
    /\ UNCHANGED added
    /\ UNCHANGED <<groq, peer, maxHistoryMessages, timeoutMs, handler, procs, nprocs, llm,
                   tts, ttsUpstream, ttsSent, stt, wsOut, audioIn, generation,
                   ttsCancelPending, lifeVars>>

NextRegistry ==
    \/ RegCreateSession
    \/ RegAddMessage
    \/ RegUpdateState
    \/ RegDestroySession
    \/ RegQuery
    \* time passes between two calls
    \/ /\ now < MaxTimeout
       /\ now' = now + 1
       /\ UNCHANGED <<groq, peer, maxHistoryMessages, timeoutMs, sessions, handler,
                      procs, nprocs, llm, tts, ttsUpstream, ttsSent, stt, wsOut,
                      audioIn, generation, ttsCancelPending, added, calls, tickDue,
                      initPc, cleanupPc, reapPc, orphaned, inits>>

SpecRegistry == InitRegistry /\ [][NextRegistry]_vars

-----------------------------------------------------------------------------
(* Claims about the session registry, checked under SpecRegistry *)

History(id) == sessions[id].conversationHistory

C6_OldestDropped ==
    [][ \A id \in DOMAIN sessions, role \in Roles, content \in RegContents :
          ( /\ AddMessageCall(id, role, content)
            /\ Len(History(id)) = maxHistoryMessages )
          => /\ id \in DOMAIN sessions'
             /\ Len(History(id)') = maxHistoryMessages
             /\ History(id)'[maxHistoryMessages] = [ role |-> role, content |-> content ]
             /\ History(id)' = Append(Tail(History(id)), [ role |-> role, content |-> content ])
      ]_vars

\* C6 witness: a full history of at least two entries whose oldest entry was
\* dropped by the latest append (its entries differ, so order is observable)
C6_Witness ==
    \E id \in DOMAIN sessions :
        /\ maxHistoryMessages >= 2
        /\ added[id] = maxHistoryMessages + 1
        /\ Len(History(id)) = maxHistoryMessages
        /\ History(id)[1] # History(id)[2]

-----------------------------------------------------------------------------
(* Claims about the pipeline, checked under Spec *)

\* C1 (as claimed): every audio frame written to the client stems from text
\* that was submitted to TTS in the current output generation, that is after
\* the latest processed barge-in.
C1_NoStaleAudioAfterBargeIn ==
    \A i \in 1..Len(wsOut) :
        wsOut[i].kind = "audio" => wsOut[i].gen = generation

\* C2 (as claimed): a reply procedure that was interrupted by a barge-in while
\* its LLM stream was in flight appends no assistant entry at all.
C2_InterruptedReplyNotAppended ==
    \A p \in 1..Len(procs) :
        procs[p].interrupted => procs[p].appended = <<>>

\* C3 (as claimed): at most one reply procedure is consuming an LLM stream.
C3_AtMostOneReply ==
    Cardinality(Streaming) <= 1

\* C4 (as claimed): a reply that ended normally and was not interrupted by a
\* barge-in appended exactly one assistant entry, whose content is the
\* concatenation of its fragments.
C4_AssistantEntryIsConcatenation ==
    \A p \in 1..Len(procs) :
        (procs[p].pc = "done" /\ ~procs[p].interrupted)
            => procs[p].appended = << Concat(procs[p].reply) >>

\* C7 (as claimed): whenever agent_speaking is true, tts_streaming is true.
C7_SpeakingImpliesTTSStreaming ==
    handler.isAgentSpeaking =>
        (SID \in DOMAIN sessions /\ sessions[SID].state.ttsStreaming)

\* C10 (as claimed): a reply that ended normally made, for the fragments of
\* scenario 4, exactly the calls ("Vale.", false), ("Te llamo por la fibra?",
\* true); and the last call of any such reply that called synthesize at all
\* had flush = true.
C10_LastSubmissionFlushes ==
    \A p \in 1..Len(procs) :
        (procs[p].pc = "done" /\ ~procs[p].interrupted) =>
            /\ procs[p].reply = Scenario4 =>
                 procs[p].synth =
                   << [ text |-> <<"V", "a", "l", "e", ".">>, flush |-> FALSE ],
                      [ text |-> Trim(Concat(Tail(Scenario4))), flush |-> TRUE ] >>
            /\ procs[p].synth # <<>> => procs[p].synth[Len(procs[p].synth)].flush

-----------------------------------------------------------------------------
(* Claims about the connection's life, checked under SpecSession *)

\* C11 (as claimed): a final transcript of the recognizer that equals a junk
\* phrase has no observable effect: the step writes no frame to the client
\* (no transcript event, no llm_chunk, no audio), sends nothing to the
\* synthesizer, starts no LLM stream and leaves the history as it was.
C11_JunkPhraseSuppressed ==
    [][ \A junk \in frasesBasura, reply \in SessionReplies :
          FinalTranscript(junk, reply) =>
              /\ wsOut' = <<>>
              /\ ttsSent' = <<>>
              /\ procs' = procs
              /\ \A id \in DOMAIN sessions :
                    id \in DOMAIN sessions' /\ History(id)' = History(id)
      ]_vars

\* C12 (as claimed): the step that handles an init frame on a connection whose
\* earlier init was processed to 'ready' writes an error frame to the client.
C12_SecondInitAnsweredWithError ==
    [][ (initPc = "ready" /\ inits' = inits + 1) => (\E i \in 1..Len(wsOut') : wsOut'[i].kind = "error") ]_vars

C14_EveryFrameIsActivity ==
    [][ (initPc = "ready" /\ (MetadataFrame \/ SessIncomingAudio)) =>
          \A id \in DOMAIN sessions :
              id \in DOMAIN sessions' /\ sessions'[id].lastActivityAt = now
      ]_vars

\* C15 (as claimed): once cleanup() has completed after the close of the
\* client socket, in every later state the LLM is cancelled (no stream is
\* left running), the STT and the TTS adapter are disconnected with no
\* socket open or being opened, and the registry holds no entry of the
\* session.  (The handler never fills the audio buffers.)
C15_TeardownComplete ==
    (handler.exists /\ ~handler.wsOpen /\ cleanupPc = "done") =>
        /\ \A p \in Streaming : procs[p].aborted
        /\ ~sttIsConnected(stt)
        /\ tts.ws \notin {"connecting", "open"}
        /\ SID \notin DOMAIN sessions

\* C16 (as claimed): the step in which connecting STT or TTS fails writes an
\* init_error frame and tears the session down: after it the registry holds
\* no entry of the session and neither adapter is connected.
C16_FailedInitTearsDown ==
    [][ (STTConnectFailed \/ TTSConnectFailed) =>
          /\ handler.wsOpen =>
                \E i \in 1..Len(wsOut') : wsOut'[i] = ErrorFrame("init_error")
          /\ SID \notin DOMAIN sessions'
          /\ stt'.socket # "open"
          /\ tts'.ws \notin {"connecting", "open"}
      ]_vars

\* C17 (as claimed): when the upstream of a stream that was not cancelled
\* fails after some fragments were delivered, the step writes an error frame
\* of kind llm_error to the client.
C17_LLMFailureSendsLLMError ==
    [][ \A p \in 1..Len(procs) :
          (procs[p].pc = "streaming" /\ procs'[p].pc = "failed"
             /\ ~procs[p].aborted /\ procs[p].pos > 0 /\ handler.wsOpen) =>
              \E i \in 1..Len(wsOut') : wsOut'[i] = ErrorFrame("llm_error")
      ]_vars

\* C18: the step that handles the failure of an LLM stream that was not
\* cancelled leaves llmStreaming false, appends no assistant entry (the
\* history is as before), sends nothing to the synthesizer and leaves the TTS
\* adapter and the audio still to come as they were, and keeps the session
\* in the registry; and a final transcript delivered after a failure starts
\* a new reply procedure.
C18_LLMFailureLeavesSessionResponsive ==
    [][ /\ \A p \in 1..Len(procs) :
             (procs[p].pc = "streaming" /\ procs'[p].pc = "failed"
                /\ ~procs[p].aborted) =>
                 /\ procs'[p].appended = <<>>
                 /\ ttsSent' = <<>>
                 /\ UNCHANGED <<tts, ttsUpstream, generation, handler>>
                 /\ \A id \in DOMAIN sessions :
                       /\ id \in DOMAIN sessions'
                       /\ ~sessions'[id].state.llmStreaming
                       /\ History(id)' = History(id)
        /\ \A transcript \in RecognizedTexts(nprocs + 1), reply \in SessionReplies :
             ( /\ \E p \in 1..Len(procs) : procs[p].pc = "failed"
               /\ FinalTranscript(transcript, reply)
               /\ sttOnTranscript(stt, transcript) # <<>> ) =>
                 /\ Len(procs') = Len(procs) + 1
                 /\ procs'[Len(procs')].pc = "streaming"
                 /\ procs'[Len(procs')].reply = reply
                 /\ SID \in DOMAIN sessions' => sessions'[SID].state.llmStreaming
      ]_vars

\* C18 witness: a reply failed after its first fragment, the session is
\* still registered, and a later final transcript has started a new reply
C18_Witness ==
    \E p, q \in 1..Len(procs) :
        /\ p < q
        /\ procs[p].pc = "failed" /\ procs[p].pos > 0
        /\ procs[q].pc = "streaming"
        /\ SID \in DOMAIN sessions
        /\ sessions[SID].state.llmStreaming

-----------------------------------------------------------------------------
(* Claims about cancellation of the LLM stream, checked under Spec *)

\* C20 (as claimed): once a barge-in has called llm.cancel(), no further
\* fragment of a stream that was in flight at that moment is delivered to
\* its reply procedure; and cancel() without a controller changes nothing.
C20_NoFragmentAfterCancel ==
    [][ /\ \A p \in 1..Len(procs) :
             procs[p].interrupted => procs'[p].pos = procs[p].pos
        /\ llm.abortController = 0 =>
             llmCancel(llm) = [ llm |-> llm, aborted |-> 0 ]
      ]_vars

-----------------------------------------------------------------------------
(* SpecGroq: the buffered STT adapter driven call by call, with its
   transcription requests completing in any order *)

\* sizes of the chunks a client sends, in bytes
ChunkSizes == { 0, 16000, MinChunkBytes - 1, MinChunkBytes }

NonGroqVars ==
    <<peer, maxHistoryMessages, timeoutMs, sessions, handler, procs, nprocs, llm, tts,
      ttsUpstream, ttsSent, stt, wsOut, audioIn, generation, ttsCancelPending,
      added, lifeVars>>

GroqConnect ==
    /\ calls < MaxCalls
    /\ groq' = groqConnect(groq)
    /\ calls' = calls + 1
    /\ UNCHANGED NonGroqVars

GroqRegister ==
    /\ ~groq.transcriptCallback
    /\ calls < MaxCalls
    /\ groq' = groqRegister(groq)
    /\ calls' = calls + 1
    /\ UNCHANGED NonGroqVars

GroqSendAudio ==
    /\ groq.sent < MaxChunks
    /\ \E size \in ChunkSizes : groq' = groqSendAudio(groq, size)
    /\ UNCHANGED calls
    /\ UNCHANGED NonGroqVars

GroqTranscription ==
    /\ \E r \in groq.inflight :
          \E text \in RecognizedTexts(r.chunk) :
              groq' = groqTranscription(groq, r, text)
    /\ UNCHANGED calls
    /\ UNCHANGED NonGroqVars

GroqTranscriptionError ==
    /\ \E r \in groq.inflight : groq' = groqTranscriptionError(groq, r)
    /\ UNCHANGED calls
    /\ UNCHANGED NonGroqVars

GroqSweep ==
    /\ groq.timers > 0
    /\ groq.sweeps < MaxSweeps
    /\ groq' = groqSweep(groq)
    /\ UNCHANGED calls
    /\ UNCHANGED NonGroqVars

GroqDisconnect ==
    /\ calls < MaxCalls
    /\ groq' = groqDisconnect(groq)
    /\ calls' = calls + 1
    /\ UNCHANGED NonGroqVars

NextGroq ==
    \/ GroqConnect
    \/ GroqRegister
    \/ GroqSendAudio
    \/ GroqTranscription
    \/ GroqTranscriptionError
    \/ GroqSweep
    \/ GroqDisconnect

SpecGroq == InitDriver /\ [][NextGroq]_vars

-----------------------------------------------------------------------------
(* SpecAdapters: the three adapters that have a connection to open and to
   close, each driven through connect() and disconnect() in any order, with
   the events of their sockets and timers in between.  The caller awaits
   connect() of the streaming STT adapter before it calls it again. *)

NonSTTVars ==
    <<groq, peer, maxHistoryMessages, timeoutMs, sessions, handler, procs, nprocs,
      llm, tts, ttsUpstream, ttsSent, wsOut, audioIn, generation,
      ttsCancelPending, added, lifeVars>>

STTDrvConnect ==
    /\ calls < MaxCalls
    /\ stt.pending # "waiting"
    /\ stt' = sttConnect(stt)
    /\ calls' = calls + 1
    /\ UNCHANGED NonSTTVars

\* the recognizer accepts the connection
STTOpen ==
    /\ stt.socket = "connecting"
    /\ stt' = sttOnOpen(stt)
    /\ UNCHANGED calls
    /\ UNCHANGED NonSTTVars

\* five seconds have passed since connect() and the socket has not opened
STTConnectTimeout ==
    /\ stt.pending = "waiting"
    /\ stt' = sttOnConnectTimeout(stt)
    /\ UNCHANGED calls
    /\ UNCHANGED NonSTTVars

\* the recognizer refuses the connection
STTConnectError ==
    /\ stt.socket = "connecting"
    /\ stt' = sttOnConnectError(stt)
    /\ UNCHANGED calls
    /\ UNCHANGED NonSTTVars

STTDrvDisconnect ==
    /\ calls < MaxCalls
    /\ stt' = sttDisconnect(stt)
    /\ calls' = calls + 1
    /\ UNCHANGED NonSTTVars

NextAdapters ==
    \/ STTDrvConnect
    \/ STTOpen
    \/ STTConnectTimeout
    \/ STTConnectError
    \/ STTDrvDisconnect
    \/ GroqConnect
    \/ GroqDisconnect
    \/ DrvConnect
    \/ TTSOpen
    \/ DrvDisconnectBegin
    \/ DrvDisconnectEnd

SpecAdapters == InitDriver /\ [][NextAdapters]_vars

-----------------------------------------------------------------------------
(* Claims about the buffered STT adapter, checked under SpecGroq *)

\* C21 (as claimed): a sendAudio call with a chunk under the minimum size
\* makes no transcription request, calls neither sink and does not throw.
C21_UndersizedChunkHasNoEffect ==
    [][ (GroqSendAudio /\ groq'.last < MinChunkBytes) =>
            /\ UNCHANGED <<groq.requests, groq.inflight, groq.delivered, groq.errors>>
            /\ ~groq'.threw ]_vars

\* C21 (amended): on a connected adapter, a sendAudio call with a chunk
\* under the minimum size makes no transcription request, calls neither
\* sink, does not throw and leaves the adapter's fields as they were.
C21_UndersizedChunkOnConnectedAdapter ==
    [][ (GroqSendAudio /\ groq.isActive /\ groq'.last < MinChunkBytes) =>
            /\ UNCHANGED <<groq.requests, groq.inflight, groq.delivered, groq.errors>>
            /\ ~groq'.threw
            /\ groq' = [ groq EXCEPT !.sent = groq'.sent, !.last = groq'.last,
                                      !.threw = FALSE ] ]_vars

\* C21 witness: the latest sendAudio call passed a non-empty undersized
\* chunk to an adapter with both sinks registered, and returned
C21_Witness ==
    /\ groq.sent > 0
    /\ groq.last > 0 /\ groq.last < MinChunkBytes
    /\ ~groq.threw
    /\ groq.isActive /\ groq.transcriptCallback /\ groq.errorCallback
    /\ groq.requests = 0

\* C22 (as claimed): a chunk under the minimum size that sendAudio receives
\* on a connected adapter is kept in the accumulator; and a sweep that finds
\* at least the minimum size accumulated submits one transcription request
\* and leaves the accumulator empty.
C22_UndersizedChunksAccumulate ==
    [][ /\ ( /\ GroqSendAudio /\ groq.isActive
              /\ groq'.last > 0 /\ groq'.last < MinChunkBytes ) =>
                groq'.audioBuffer = Append(groq.audioBuffer, groq'.last)
        /\ (GroqSweep /\ byteLength(groq.audioBuffer) >= MinBufferBytes) =>
                /\ groq'.requests = groq.requests + 1
                /\ groq'.audioBuffer = <<>> ]_vars

\* C23 (as claimed): the transcript sink receives the final transcripts in
\* the order in which their chunks were passed to sendAudio, each chunk at
\* most once: the sequence of delivered chunk numbers is strictly increasing.
C23_TranscriptsInChunkOrder ==
    \A i, j \in 1..Len(groq.delivered) :
        i < j => groq.delivered[i] < groq.delivered[j]

-----------------------------------------------------------------------------
(* SpecPair: two connections at once.  The connection of session SID runs
   its handler; the other connection is seen through what its handler does
   to the shared registry under its own session id PID and to its own
   client socket. *)

\* the frames and utterances the connection of SID has handled
PairInputs == inits + audioIn + nprocs

\* what a step of the other connection leaves alone
NonPeerVars ==
    <<groq, maxHistoryMessages, timeoutMs, handler, procs, nprocs, llm, tts,
      ttsUpstream, stt, audioIn, generation, ttsCancelPending, calls, lifeVars>>

\* a step of the other connection's handler: the registry after it, the
\* history bookkeeping after it and the frames written to its socket
PeerStep(ss, a, frames) ==
    /\ peer.steps < MaxPeerSteps
    /\ sessions' = ss
    /\ added' = a
    /\ peer' = [ out |-> frames, steps |-> peer.steps + 1 ]
    /\ wsOut' = <<>>
    /\ ttsSent' = <<>>
    /\ UNCHANGED NonPeerVars

\* initialize() of the other connection, to its end
PeerInit ==
    /\ PID \notin DOMAIN sessions
    /\ PeerStep(updateState(setProviders(createSession(sessions, PID), PID), PID,
                            [ k \in {"sttConnected", "ttsConnected", "isActive"}
                                |-> TRUE ]),
                addedAfterCreate(added, PID),
                << EventFrame("ready") >>)

\* a final transcript on the other connection: handleTranscript and the
\* start of processUserMessage
PeerFinalTranscript ==
    /\ PID \in DOMAIN sessions
    /\ PeerStep(updateState(addMessage(sessions, PID, "user", UserText(2)), PID,
                            [ k \in {"llmStreaming"} |-> TRUE ]),
                addedAfterAdd(added, PID),
                << EventFrame("transcript_final") >>)

\* the end of a reply on the other connection
PeerStreamEnd ==
    /\ PID \in DOMAIN sessions
    /\ sessions[PID].state.llmStreaming
    /\ PeerStep(updateState(addMessage(sessions, PID, "assistant", <<"O", "k">>),
                            PID, [ k \in {"llmStreaming"} |-> FALSE ]),
                addedAfterAdd(added, PID),
                <<>>)

\* the other connection closes: cleanup() destroys its session
PeerClose ==
    /\ PID \in DOMAIN sessions
    /\ PeerStep(removeSession(sessions, PID), addedAfterDestroy(added, PID), <<>>)

\* the recognizer reports an error on its open socket: the Error handler of
\* the adapter calls the error sink, which initialize registers and
\* disconnect drops together with the transcript sink
STTError ==
    /\ stt.socket = "open"
    /\ stt.transcriptCallback
    /\ Commit(sendError(World, "stt_error"))
    /\ UNCHANGED <<groq, peer, maxHistoryMessages, timeoutMs, procs, nprocs, llm, stt,
                   audioIn, calls, lifeVars>>

\* the synthesizer's socket reports an error: the error handler of the
\* adapter calls the error sink, which initialize registers and disconnect
\* drops together with the audio sink; the socket closes with the error
TTSError ==
    /\ tts.ws = "open"
    /\ tts.audioCallback
    /\ Commit(sendError([ World EXCEPT !.tts = ttsOnClose(@) ], "tts_error"))
    /\ UNCHANGED <<groq, peer, maxHistoryMessages, timeoutMs, procs, nprocs, llm, stt,
                   audioIn, calls, lifeVars>>

NextPair ==
    \/ PairInputs < MaxPairInputs /\ InitFrame
    \/ STTConnected
    \/ TTSConnected
    \/ MetadataFrameOf([ k \in {"clientName"} |-> "Luis" ])
    \/ PairInputs < MaxPairInputs /\ IncomingAudio
    \/ /\ PairInputs < MaxPairInputs
       /\ \E reply \in SessionReplies : FinalTranscript(Utterance(nprocs + 1), reply)
    \/ \E p \in 1..Len(procs) : LLMFragment(p)
    \/ \E p \in 1..Len(procs) : LLMStreamEnd(p)
    \/ TTSAudioMessage
    \/ TTSFinalMessage
    \/ STTError
    \/ TTSError
    \* text that is not JSON, and an object of another type
    \/ \E message \in { "{", "{\"type\":\"ping\"}" } : TextFrame(message)
    \/ ClientClose
    \/ CleanupResume
    \/ PeerInit
    \* a metadata frame on the other connection
    \/ /\ PID \in DOMAIN sessions
       /\ PeerStep(updateMetadata(sessions, PID, [ k \in {"clientName"} |-> "Ana" ]),
                   added, <<>>)
    \/ PeerFinalTranscript
    \/ PeerStreamEnd
    \/ PeerClose

SpecPair == Init /\ [][NextPair]_vars

-----------------------------------------------------------------------------
(* Claims about two sessions, checked under SpecPair *)

\* C24: a step of one connection (its init, metadata frame, audio frame and
\* barge-in, transcript, reply, TTS message, close and cleanup) leaves the
\* registry entry of the other connection's session as it was: history,
\* state flags, metadata, activity stamp and existence; the frames it
\* produces are written to its own socket only, and it does not touch the
\* other connection's handler or adapters.
C24_SessionsAreIsolated ==
    [][ LET \* the registry entry of a session and its bookkeeping are as before
            SameSession(id) ==
                /\ (id \in DOMAIN sessions) = (id \in DOMAIN sessions')
                /\ id \in DOMAIN sessions => sessions'[id] = sessions[id]
                /\ id \in DOMAIN added => added'[id] = added[id]
        IN
        IF peer'.steps # peer.steps
        THEN /\ SameSession(SID)
             /\ wsOut' = <<>> /\ ttsSent' = <<>>
             /\ UNCHANGED <<handler, tts, ttsUpstream, stt, llm, procs>>
        ELSE /\ SameSession(PID)
             /\ peer' = peer ]_vars

\* C24 witness: both sessions are alive with a history and metadata of
\* their own, after a barge-in and an assistant entry on the first one
C24_Witness ==
    /\ SID \in DOMAIN sessions /\ PID \in DOMAIN sessions
    /\ sessions[SID].metadata.clientName = "Luis"
    /\ sessions[PID].metadata.clientName = "Ana"
    /\ Len(sessions[SID].conversationHistory) >= 2
    /\ Len(sessions[PID].conversationHistory) >= 1
    /\ generation > 0

-----------------------------------------------------------------------------
(* Claims about barge-in, checked under Spec *)

\* the step runs the barge-in procedure
BargeIn == generation' = generation + 1

\* C25 (as claimed): when a barge-in runs after the latest reply's LLM
\* stream has ended normally and its assistant entry is the last entry of
\* the history, while the agent is still speaking that reply, the history
\* after the barge-in does not end with that assistant entry any more.
C25_CancelledReplyNotInHistory ==
    [][ ( /\ BargeIn
          /\ Len(procs) > 0 /\ Streaming = {}
          /\ procs[Len(procs)].pc = "done" /\ ~procs[Len(procs)].interrupted
          /\ ttsUpstream.queue # <<>>
          /\ History(SID) # <<>>
          /\ History(SID)[Len(History(SID))].role = "assistant" ) =>
            \/ History(SID)' = <<>>
            \/ History(SID)'[Len(History(SID)')].role # "assistant" ]_vars

\* C26 (as claimed): an audio frame handled while no reply is in progress
\* (no LLM stream is open and the synthesizer holds no text it has not voiced
\* and completed) runs no barge-in: nothing is sent to the synthesizer, the LLM adapter is
\* not cancelled, no interruption_processed is written, and the frame
\* reaches the recognizer.
C26_NoBargeInWhenIdle ==
    [][ ( /\ audioIn' = audioIn + 1 /\ initPc = "ready"
          /\ Streaming = {}
          /\ ttsUpstream.queue = <<>> /\ ~ttsUpstream.active ) =>
            /\ ~BargeIn
            /\ ttsSent' = <<>>
            /\ llm' = llm
            /\ \A i \in 1..Len(wsOut') :
                  wsOut'[i] # EventFrame("interruption_processed")
            /\ sttIsConnected(stt) => stt'.heard > 0 ]_vars

-----------------------------------------------------------------------------
(* Claims about the barge-in procedure and provider errors, checked under
   SpecPair *)

\* C27: the step that handles an audio frame while isAgentSpeaking is true
\* writes interruption_processed as its first frame and no transcript event,
\* and hands the frame to a connected recognizer in the same step, after the
\* barge-in; and a step writes a transcript event only if the recognizer
\* had received audio before the step, so the transcripts of the frame come
\* after interruption_processed.
C27_BargeInBeforeForwarding ==
    [][ /\ (audioIn' = audioIn + 1 /\ handler.isAgentSpeaking) =>
              /\ BargeIn
              /\ wsOut' # <<>>
              /\ wsOut'[1] = EventFrame("interruption_processed")
              /\ \A i \in 1..Len(wsOut') :
                    wsOut'[i] \notin { EventFrame("transcript_partial"),
                                       EventFrame("transcript_final") }
              /\ IF sttIsConnected(stt)
                 THEN stt'.heard > 0 /\ Len(wsOut') = 1
                 ELSE wsOut'[2] = ErrorFrame("audio_processing_error")
        /\ (\E i \in 1..Len(wsOut') :
               wsOut'[i] \in { EventFrame("transcript_partial"),
                               EventFrame("transcript_final") }) =>
              /\ stt.heard > 0
              /\ audioIn' = audioIn ]_vars

\* C27 witness: a frame that interrupted the agent has been forwarded: the
\* step wrote interruption_processed and the recognizer holds the audio
C27_Witness ==
    /\ wsOut = << EventFrame("interruption_processed") >>
    /\ stt.heard > 0
    /\ generation > 0
    /\ audioIn > 1

\* C28: the step that runs the barge-in writes exactly one
\* interruption_processed, and at its end the flush frame has been sent to
\* a connected synthesizer (tts.cancel), the LLM adapter holds no controller
\* and the stream it held is aborted (llm.cancel), the output queue and the
\* pending reply text are empty, and isAgentSpeaking, llmStreaming and
\* ttsStreaming are false.
C28_StateAtInterruptionProcessed ==
    [][ BargeIn =>
          /\ Cardinality({ i \in 1..Len(wsOut') :
                  wsOut'[i] = EventFrame("interruption_processed") }) = 1
          /\ ttsIsConnected(tts) => ttsSent' = << flushMessage >>
          /\ llm'.abortController = 0
          /\ llm.abortController \in Streaming =>
                procs'[llm.abortController].aborted
          /\ handler'.outputQueue = <<>>
          /\ handler'.pendingLLMResponse = <<>>
          /\ ~handler'.isAgentSpeaking
          /\ \A id \in DOMAIN sessions' \ {PID} :
                ~sessions'[id].state.llmStreaming /\ ~sessions'[id].state.ttsStreaming
      ]_vars

\* C28 witness: a barge-in has run while the reply was still streaming from
\* the LLM and the synthesizer was connected
C28_Witness ==
    /\ wsOut = << EventFrame("interruption_processed") >>
    /\ ttsSent = << flushMessage >>
    /\ \E p \in 1..Len(procs) : procs[p].interrupted /\ procs[p].aborted
    /\ SID \in DOMAIN sessions

\* C29 (as claimed): when the recognizer or the synthesizer reports an error
\* during a turn (an LLM stream is open or the agent is speaking), the step
\* writes stt_error or tts_error, and at its end llmStreaming and
\* ttsStreaming are false and isAgentSpeaking is false, and the session is
\* still registered.
C29_ProviderErrorReturnsToIdle ==
    [][ ((STTError \/ TTSError) /\ (Streaming # {} \/ handler.isAgentSpeaking)) =>
          /\ \E i \in 1..Len(wsOut') :
                wsOut'[i] \in { ErrorFrame("stt_error"), ErrorFrame("tts_error") }
          /\ ~handler'.isAgentSpeaking
          /\ SID \in DOMAIN sessions'
          /\ ~sessions'[SID].state.llmStreaming
          /\ ~sessions'[SID].state.ttsStreaming ]_vars

-----------------------------------------------------------------------------
(* Claims about the reaper and the orchestrator, checked under SpecSession *)

\* C30 (as claimed): once the reaper has destroyed the session of an
\* initialized connection whose client has not closed the socket (the
\* session is gone though no cleanup and no reap is running), the client
\* socket is closed, and no step writes a frame to the client, sends text
\* to the synthesizer or starts a reply procedure.
C30_ReapTearsDownOrchestrator ==
    [][ ( /\ initPc = "ready"
          /\ handler.exists
          /\ cleanupPc = "none" /\ reapPc = "none"
          /\ SID \notin DOMAIN sessions ) =>
          /\ ~handler.wsOpen
          /\ wsOut' = <<>>
          /\ \A i \in 1..Len(ttsSent') : ttsSent'[i].kind # "text"
          /\ Len(procs') = Len(procs) ]_vars

-----------------------------------------------------------------------------
(* Claims about client frames, checked under SpecPair *)

\* C31: the step that handles a text frame which JSON.parse rejects writes
\* exactly one frame to the client, the error message_processing_error,
\* sends nothing to the synthesizer, and leaves the registry (history, state
\* flags, providers), the handler with its open socket, the adapters, the
\* reply procedures and the position of initialize as they were, so that
\* what follows is handled as if the frame had not arrived.
C31_MalformedFrameIsRecoverable ==
    [][ \A message \in { "{", "{\"type\":\"ping\"}" } :
          (JSONparse(message).threw /\ audioIn' = audioIn /\ TextFrame(message)) =>
              /\ wsOut' = << ErrorFrame("message_processing_error") >>
              /\ ttsSent' = <<>>
              /\ handler'.wsOpen
              /\ UNCHANGED <<sessions, handler, stt, tts, ttsUpstream, llm, procs,
                             nprocs, generation, initPc, cleanupPc, peer>> ]_vars

\* C31 witness: a frame that is not JSON was answered while a reply was
\* streaming on an initialized session with a history
C31_Witness ==
    /\ wsOut = << ErrorFrame("message_processing_error") >>
    /\ initPc = "ready"
    /\ Streaming # {}
    /\ History(SID) # <<>>

-----------------------------------------------------------------------------
(* Claims about the adapters' connections, checked under SpecAdapters *)

\* C32 (as claimed): a connect() call on a connected STT adapter fails and
\* leaves the adapter as it was: the streaming adapter keeps its open
\* connection and opens no other, the buffered adapter starts no other
\* interval.
C32_SecondConnectIsAnError ==
    [][ /\ (STTDrvConnect /\ sttIsConnected(stt)) =>
              /\ stt'.pending = "rejected"
              /\ sttIsConnected(stt')
              /\ stt'.leaked = stt.leaked
        /\ (GroqConnect /\ groq.isActive /\ groq.client) =>
              /\ groq'.threw
              /\ groq'.isActive /\ groq'.client
              /\ groq'.timers = groq.timers ]_vars

\* C33: on an adapter that holds nothing left over from earlier calls,
\* disconnect() leaves the adapter not connected, without a socket and
\* without a running interval; disconnect() on an adapter that holds no
\* connection changes nothing; and connect() on an adapter in that state
\* opens exactly one socket (starts exactly one interval) and the adapter
\* is connected once the socket has opened.
C33_ConnectDisconnectConnect ==
    [][ \* the buffered STT adapter
        /\ (GroqDisconnect /\ groq.isActive /\ groq.timers = 1) =>
              /\ ~(groq'.isActive /\ groq'.client)
              /\ ~groq'.processingInterval /\ groq'.timers = 0
        /\ (GroqDisconnect /\ ~groq.isActive) => groq' = groq
        /\ (GroqConnect /\ ~groq.isActive /\ groq.timers = 0) =>
              /\ groq'.isActive /\ groq'.client
              /\ groq'.processingInterval /\ groq'.timers = 1
        \* the streaming STT adapter
        /\ (STTDrvDisconnect /\ sttIsConnected(stt)) =>
              /\ ~sttIsConnected(stt')
              /\ ~stt'.connection /\ stt'.socket = "closed"
              /\ stt'.leaked = stt.leaked
        /\ (STTDrvDisconnect /\ ~stt.connection) => stt' = stt
        /\ (STTDrvConnect /\ stt.socket \in {"none", "closed"}) =>
              /\ stt'.socket = "connecting" /\ stt'.connection
              /\ stt'.leaked = stt.leaked
        /\ (STTOpen /\ stt.connection /\ stt.pending = "waiting") =>
              /\ sttIsConnected(stt') /\ stt'.pending = "resolved"
        \* the TTS adapter
        /\ DrvDisconnectEnd => tts'.ws = "null" /\ ~ttsIsConnected(tts')
        /\ (DrvDisconnectBegin /\ ~ttsIsConnected(tts)) =>
              tts'.ws = "null" /\ ~tts'.disconnecting
        /\ (DrvDisconnectBegin /\ tts.ws = "null") =>
              tts' = tts /\ ttsSent' = <<>>
        /\ (DrvConnect /\ tts.ws = "null") => tts'.ws = "connecting"
        /\ TTSOpen => ttsIsConnected(tts') ]_vars

\* C33 witness: the buffered adapter was connected, disconnected and
\* connected again by the only three calls made, and runs one interval
C33_Witness ==
    /\ calls = 3
    /\ groq.connects = 2
    /\ groq.isActive /\ groq.client
    /\ groq.timers = 1

\* C39 (as claimed): once connect() of the streaming STT adapter has been
\* rejected, and until it is called again, the adapter is not connected and
\* its socket is not open.
C39_NoConnectionAfterRejectedConnect ==
    stt.pending = "rejected" => (~sttIsConnected(stt) /\ stt.socket # "open")

-----------------------------------------------------------------------------
(* Claims about the reply procedure, checked under SpecSession *)

\* C34 (as claimed): the step that starts a reply procedure (handleTranscript on a final
\* transcript with text, and processUserMessage up to the request of the
\* LLM stream) writes transcript_final to an open client socket and no
\* llm_chunk, and when it ends, with no fragment of the stream consumed yet,
\* the history the registry returns, which is the one handed to the LLM,
\* ends with the user turn of that transcript; llm_chunk is written only by
\* later steps.
C34_TranscriptThenHistoryThenStream ==
    [][ /\ nprocs' = nprocs + 1 =>
              /\ handler.wsOpen => wsOut' = << EventFrame("transcript_final") >>
              /\ procs'[nprocs'].pos = 0
              /\ LET history == getFormattedHistory(sessions', SID)
                 IN  /\ history # <<>>
                     /\ history[Len(history)] =
                           [ role |-> "user", content |-> procs'[nprocs'].userText ]
        /\ (\E i \in 1..Len(wsOut') : wsOut'[i] = EventFrame("llm_chunk")) =>
              nprocs' = nprocs ]_vars

-----------------------------------------------------------------------------
(* Claims about the sentences of a reply, checked under Spec *)

\* the segments of the concatenated fragments, cut after each fragment that
\* ends with '.', '!', '?' or a newline, trimmed, the empty ones left out;
\* acc is the text since the last cut
RECURSIVE SegmentsOf(_, _)
SegmentsOf(fragments, acc) ==
    IF fragments = <<>>
    THEN IF Trim(acc) = <<>> THEN <<>> ELSE << Trim(acc) >>
    ELSE LET text == acc \o Head(fragments)
         IN  IF text[Len(text)] \in {".", "!", "?", "\n"}
             THEN (IF Trim(text) = <<>> THEN <<>> ELSE << Trim(text) >>)
                  \o SegmentsOf(Tail(fragments), <<>>)
             ELSE SegmentsOf(Tail(fragments), text)

\* C35: for every reply procedure whose stream ended without having been
\* aborted, the texts of its synthesize calls, in the order of the calls,
\* are the segments of its fragments.
C35_SentencesAreTheSegments ==
    \A p \in 1..Len(procs) :
        (procs[p].pc = "done" /\ ~procs[p].aborted) =>
            [ i \in 1..Len(procs[p].synth) |-> procs[p].synth[i].text ]
                = SegmentsOf(procs[p].reply, <<>>)

\* C35 witness: a reply of four fragments, of which the first and the last
\* end a sentence, has ended and was submitted as two sentences
C35_Witness ==
    \E p \in 1..Len(procs) :
        /\ procs[p].pc = "done" /\ ~procs[p].aborted
        /\ procs[p].reply = Scenario4
        /\ Len(procs[p].synth) = 2

\* C36 (as claimed): a step of a reply procedure whose stream was aborted by a
\* barge-in submits no text to the synthesizer and does not set
\* isAgentSpeaking or ttsStreaming to true.
C36_InterruptedReplyStaysSilent ==
    [][ \A p \in 1..Len(procs) :
          (procs[p].aborted /\ procs[p].pc = "streaming" /\ LLMStreamEnd(p)) =>
              /\ procs'[p].synth = procs[p].synth
              /\ handler'.isAgentSpeaking = handler.isAgentSpeaking
              /\ (SID \in DOMAIN sessions /\ SID \in DOMAIN sessions') =>
                    sessions'[SID].state.ttsStreaming = sessions[SID].state.ttsStreaming
      ]_vars

-----------------------------------------------------------------------------
(* Claims about the adapters of a connection, checked under SpecSession *)

\* C37 (as claimed): once cleanup() has finished and no initialize is in
\* flight, no recognizer or synthesizer socket opened for the connection is
\* open, those of handlers replaced by a later init included.
C37_NoAdapterOutlivesTeardown ==
    (cleanupPc = "done" /\ initPc \in {"none", "ready", "failed"}) =>
        /\ orphaned = 0
        /\ stt.socket # "open"
        /\ tts.ws # "open"

-----------------------------------------------------------------------------
(* Claims about the queries of the registry, checked under SpecRegistry *)

\* C38 (as claimed): a query of the registry (getSessionStats,
\* listActiveSessions, getFormattedHistory, getProviders) leaves the
\* lastActivityAt of every session as it was.
C38_QueriesLeaveActivityAlone ==
    [][ RegQuery =>
          \A id \in DOMAIN sessions :
              sessions'[id].lastActivityAt = sessions[id].lastActivityAt ]_vars

-----------------------------------------------------------------------------
(* Claims about the writes to the client socket, checked under SpecSession *)

\* C40 (as claimed): no frame is sent on a client socket that is not open.
\* sendEvent, sendError and sendAudio return when the socket is not open;
\* the one send that is not behind that test is the ws.send in the catch of
\* the message handler, which runs when initialize() rethrows: every step
\* that runs it is taken while the socket is open.
C40_NoSendOnClosedSocket ==
    [][ (STTConnectFailed \/ TTSConnectFailed) => handler.wsOpen ]_vars

====
